---------------------------- MODULE Spec2Model ----------------------------
(***************************************************************************)
(* A model of the convention editor's two pure utilities:                  *)
(*   - the next-occurrence date projector (addYearSameWeekday), applied by *)
(*     the Editor to the template event's start and end date, and          *)
(*   - the annotated JSON serializer (myStringifyWithErrors).              *)
(* Dates are records [y, m, d] with the month numbered 0..11 as in the     *)
(* JavaScript Date API; weekdays are 0 (Sunday) .. 6 (Saturday).           *)
(***************************************************************************)
EXTENDS Integers, Sequences, FiniteSets, TLC

VARIABLES
    pc,         \* which step of the modelled run has been taken
    startDate,  \* templateEvent.startDate, parsed
    endDate,    \* templateEvent.endDate, parsed
    dates,      \* initialValues.dates of the form, <<>> until computed
    heap,       \* the arrays and objects of the serializer's argument, by id
    value,      \* myStringifyWithErrors: the argument value
    errors,     \* myStringifyWithErrors: the argument errors
    version,    \* which of the two versions of myStringifyWithErrors runs
    result,     \* what the call of myStringifyWithErrors produced
    lastSeen,   \* the WeakSet `seen` as the most recent call left it
    log,        \* the calls made so far: what was passed and what came back
    inputValue, \* PlacePicker: the text of the search input
    loading,    \* PlacePicker: the state loading
    retrieving, \* PlacePicker: the state retrieving
    options,    \* PlacePicker: the suggestions listed under the input
    needsPrediction, \* PlacePicker: needsPredictionRef.current
    focused,    \* PlacePicker: document.activeElement === ref.current
    scheduled,  \* PlacePicker: the argument the debounce timer is holding
    issued,     \* PlacePicker: how many autocomplete requests were sent
    inFlight,   \* PlacePicker: the autocomplete requests not yet settled
    retrievals, \* PlacePicker: the places whose fetchFields has not settled
    placeValue, \* PlacePicker: the prop value
    changes,    \* PlacePicker: the arguments of the calls of onChange
    rejected,   \* PlacePicker: the rejections no handler caught
    form,       \* Editor: the values of the form
    schema,     \* Editor: the members the fetched schema requires non-empty
    clipboard,  \* Editor: what clipboard.copy was last given
    activeLocale, \* i18n.locale
    cache,      \* the module-level caches of IntlList and of Flag
    rendered,   \* IntlList, Flag: the locale, key and value of the last render
    deps        \* IntlList, Flag: the t the effect last ran with

vars ==
    <<pc, startDate, endDate, dates, heap, value, errors, version, result,
      lastSeen, log, inputValue, loading, retrieving, options,
      needsPrediction, focused, scheduled, issued, inFlight, retrievals,
      placeValue, changes, rejected, form, schema, clipboard, activeLocale,
      cache,
      rendered, deps>>

dateVars == <<startDate, endDate, dates>>
serializerVars == <<heap, value, errors, version, result>>
callVars == <<lastSeen, log>>
placeVars ==
    <<inputValue, loading, retrieving, options, needsPrediction, focused,
      scheduled, issued, inFlight, retrievals, placeValue, changes, rejected>>

\* what the serializer and the pre-fill leave alone, and what the
\* components leave alone
editorVars == <<form, schema, clipboard>>
cacheVars == <<activeLocale, cache, rendered, deps>>
componentVars == <<placeVars, editorVars, cacheVars>>
outsidePlacePicker ==
    <<pc, dateVars, serializerVars, callVars, editorVars, cacheVars>>
outsideEditor ==
    <<pc, dateVars, serializerVars, callVars, placeVars, cacheVars>>
outsideCaches ==
    <<pc, dateVars, serializerVars, callVars, placeVars, editorVars>>

-----------------------------------------------------------------------------
(* Bounds of the model *)

\* first and last year of the template dates
MinYear == 2020
MaxYear == 2047
\* longest template event, in days after its start date
MaxSpan == 2
\* most entries (elements and keys) of the serializer's argument
MaxEntries == 3
\* most validation errors passed to the serializer
MaxErrors == 2
\* most calls of the serializer in one run
MaxCalls == 3
\* most autocomplete requests sent by the PlacePicker
MaxRequests == 2
\* most calls of onChange made from the clear button and the freeform input
MaxChanges == 1

-----------------------------------------------------------------------------
(* JavaScript values.  A value is a record [t, n, s]: t is its type, n the  *)
(* number, the boolean (0 / 1) or the id of the referenced array or object, *)
(* s the characters of a string.  Texts are sequences of one-character      *)
(* strings.                                                                 *)

Null == [t |-> "null", n |-> 0, s |-> <<>>]
Undefined == [t |-> "undefined", n |-> 0, s |-> <<>>]
Bool(b) == [t |-> "boolean", n |-> IF b THEN 1 ELSE 0, s |-> <<>>]
Num(n) == [t |-> "number", n |-> n, s |-> <<>>]
Str(s) == [t |-> "string", n |-> 0, s |-> s]
Ref(id) == [t |-> "ref", n |-> id, s |-> <<>>]

\* an array: its elements; an object: its own keys in insertion order and
\* their values
ArrayOf(items) == [array |-> TRUE, keys |-> <<>>, items |-> items]
ObjectOf(keys, items) == [array |-> FALSE, keys |-> keys, items |-> items]

NoResult == [st |-> "none", text |-> <<>>]

Digits == <<"0", "1", "2", "3", "4", "5", "6", "7", "8", "9">>

IsDigit(c) == \E i \in 1..10 : Digits[i] = c

DigitValue(c) == (CHOOSE i \in 1..10 : Digits[i] = c) - 1

RECURSIVE NatToChars(_)
NatToChars(n) ==
    IF n < 10 THEN <<Digits[n + 1]>>
    ELSE NatToChars(n \div 10) \o <<Digits[(n % 10) + 1]>>

\* Number.prototype.toString of an integer
NumberToChars(n) == IF n < 0 THEN <<"-">> \o NatToChars(0 - n) ELSE NatToChars(n)

RECURSIVE Repeat(_, _)
Repeat(s, n) == IF n <= 0 THEN <<>> ELSE s \o Repeat(s, n - 1)

RECURSIVE Flatten(_)
Flatten(ss) == IF ss = <<>> THEN <<>> ELSE Head(ss) \o Flatten(Tail(ss))

\* Array.prototype.join
RECURSIVE Join(_, _)
Join(ss, sep) ==
    IF ss = <<>> THEN <<>>
    ELSE IF Len(ss) = 1 THEN ss[1]
    ELSE ss[1] \o sep \o Join(Tail(ss), sep)

-----------------------------------------------------------------------------
(* The Editor's form: the values of useForm, the schema fetched when the    *)
(* module loads, and the clipboard                                          *)

\* initialValues when there is no template series
DefaultValues ==
    [id |-> Null, prefix |-> <<>>, suffix |-> <<>>, dates |-> <<Null, Null>>,
     url |-> <<>>, venue |-> <<>>, address |-> Undefined,
     country |-> Undefined, latLng |-> Undefined]

\* the Editor after its first render with the given initialValues
EditorMounted(values, required) ==
    /\ form = values
    /\ schema = required
    /\ clipboard = Null

-----------------------------------------------------------------------------
(* The module-level caches of IntlList and Flag *)

\* i18n.loadAndActivate({ locale: "en", messages })
InitialLocale == <<"e", "n">>

\* a component that has not rendered yet
NotRendered == [locale |-> <<>>, key |-> <<>>, value |-> Null]

\* the modules are loaded: both caches are {}, nothing has rendered
CachesLoaded ==
    /\ activeLocale = InitialLocale
    /\ cache = [c \in {"IntlList", "Flag"} |-> <<>>]
    /\ rendered = [c \in {"IntlList", "Flag"} |-> NotRendered]
    /\ deps = [c \in {"IntlList", "Flag"} |-> <<>>]

-----------------------------------------------------------------------------
(* PlacePicker: the search input, its debounced autocomplete requests and   *)
(* the retrieval of the place of a submitted suggestion.  The handlers run  *)
(* to completion one at a time; an async function is one step up to its     *)
(* await and one step when the awaited promise settles.                     *)

\* the texts typed into the search input and into the freeform input
SearchTexts == { <<>>, <<"a">>, <<"a", "b">> }
VenueTexts == { <<"v">> }

\* a Place: venue, and address, country and latLng where known
Place(venue, address, country, latLng) ==
    [t |-> "place", venue |-> venue, address |-> address,
     country |-> country, latLng |-> latLng]

\* a latitude and longitude, in the datum they are expressed in
LatLng(datum) == Str(datum)
Gcj02 == <<"g", "c", "j">>
Wgs84 == <<"w", "g", "s">>

gcj02ToWgs84(latLng) == LatLng(Wgs84)

showPlace(p) ==
    IF p.address.t \notin {"null", "undefined"}
    THEN p.venue \o <<",", " ">> \o p.address.s
    ELSE p.venue

\* useState(() => value != null ? showPlace(value) : null)
InitialInputValue(v) == IF v.t # "null" THEN Str(showPlace(v)) ELSE Null

\* what fetchAutocompleteSuggestions resolves with for a request: null, or
\* suggestions; a suggestion has a main text and may have a secondary text
Suggestion(request, secondaryText) ==
    [request |-> request.id, mainText |-> request.input,
     secondaryText |-> secondaryText]

NoResponse == {}

Responses(request) ==
    {NoResponse}
        \cup { {Suggestion(request, st)} : st \in {Null, Str(<<"s">>)} }

\* setOptions of updatePredictions once the response is there
NewOptions_Unchecked(resp) == resp

NewOptions(resp) ==
    IF resp = NoResponse \/ ~needsPrediction THEN {} ELSE resp

\* disabled={disabled || retrieving}; the Editor passes no disabled
InputDisabled == retrieving

\* the user puts the cursor into the search input
Focus ==
    /\ ~InputDisabled
    /\ ~focused
    /\ focused' = TRUE
    /\ UNCHANGED <<inputValue, loading, retrieving, options, needsPrediction,
                   scheduled, issued, inFlight, retrievals, placeValue,
                   changes, rejected>>
    /\ UNCHANGED outsidePlacePicker

\* onChange of the Autocomplete: the text of the search input changes to v
AutocompleteOnChange ==
    \E v \in SearchTexts :
        /\ Str(v) # inputValue
        /\ v # <<>> => issued + Cardinality(scheduled) < MaxRequests
        /\ IF ~focused
           THEN UNCHANGED <<inputValue, needsPrediction, loading, scheduled>>
           ELSE /\ inputValue' = Str(v)
                /\ IF v = <<>>
                   THEN UNCHANGED <<needsPrediction, loading, scheduled>>
                   ELSE /\ needsPrediction' = TRUE
                        /\ loading' = TRUE
                        /\ scheduled' = {v}
        /\ UNCHANGED <<focused, retrieving, options, issued, inFlight,
                       retrievals, placeValue, changes, rejected>>
    /\ UNCHANGED outsidePlacePicker

\* the debounce delay has passed since the last call of updatePredictions:
\* the request for the text of that call is sent
updatePredictions ==
    \E v \in scheduled :
        /\ scheduled' = {}
        /\ issued' = issued + 1
        /\ inFlight' = inFlight \cup {[id |-> issued + 1, input |-> v]}
        /\ UNCHANGED <<inputValue, loading, retrieving, options,
                       needsPrediction, focused, retrievals, placeValue,
                       changes, rejected>>
    /\ UNCHANGED outsidePlacePicker

\* fetchAutocompleteSuggestions of a request in flight resolves
SuggestionsResolve ==
    \E request \in inFlight :
        \E resp \in Responses(request) :
            /\ inFlight' = inFlight \ {request}
            /\ options' = NewOptions(resp)
            /\ loading' = FALSE
            /\ UNCHANGED <<inputValue, retrieving, needsPrediction, focused,
                           scheduled, issued, retrievals, placeValue,
                           changes, rejected>>
    /\ UNCHANGED outsidePlacePicker

\* fetchAutocompleteSuggestions of a request in flight rejects: there is no
\* catch, the rejection leaves the async function
SuggestionsReject ==
    \E request \in inFlight :
        /\ inFlight' = inFlight \ {request}
        /\ loading' = FALSE
        /\ rejected' = Append(rejected, "suggestions")
        /\ UNCHANGED <<inputValue, retrieving, options, needsPrediction,
                       focused, scheduled, issued, retrievals, placeValue,
                       changes>>
    /\ UNCHANGED outsidePlacePicker

\* setValue(v), but for the text of the input
setValue(v) ==
    /\ options' = {}
    /\ changes' = Append(changes, v)
    /\ placeValue' = v

\* onBlur of the Autocomplete, but for the text of the input
Blurred ==
    /\ focused' = FALSE
    /\ needsPrediction' = FALSE

\* setInputValue(value != null ? showPlace(value) : "")
CommittedText == IF placeValue.t # "null" THEN Str(showPlace(placeValue)) ELSE Str(<<>>)

onBlur ==
    /\ focused
    /\ Blurred
    /\ options' = {}
    /\ inputValue' = CommittedText
    /\ UNCHANGED <<loading, retrieving, scheduled, issued, inFlight,
                   retrievals, placeValue, changes, rejected>>
    /\ UNCHANGED outsidePlacePicker

\* onClear of the Autocomplete: the clear button of the search input
onClear ==
    /\ ~InputDisabled
    /\ Len(changes) < MaxChanges
    /\ needsPrediction' = FALSE
    /\ setValue(Null)
    /\ inputValue' = Str(<<>>)
    /\ UNCHANGED <<loading, retrieving, focused, scheduled, issued, inFlight,
                   retrievals, rejected>>
    /\ UNCHANGED outsidePlacePicker

\* onChange of the TextInput of the freeform tab
FreeformOnChange ==
    \E venue \in VenueTexts :
        LET v == Place(venue, Undefined, Undefined, Undefined)
        IN  /\ ~focused
            /\ Len(changes) < MaxChanges
            /\ placeValue # v
            /\ setValue(v)
            /\ inputValue' = Str(showPlace(v))
            /\ UNCHANGED <<loading, retrieving, needsPrediction, focused,
                           scheduled, issued, inFlight, retrievals, rejected>>
    /\ UNCHANGED outsidePlacePicker

\* onOptionSubmit up to the await: a suggestion of the list is chosen; blur()
\* runs onBlur when the input has the focus
onOptionSubmit ==
    \E suggestion \in options :
        LET p == Place(suggestion.mainText,
                       IF suggestion.secondaryText.t # "null"
                       THEN suggestion.secondaryText ELSE Undefined,
                       Undefined, Undefined)
        IN  /\ ~InputDisabled
            /\ options' = {}
            /\ IF focused THEN Blurred ELSE UNCHANGED <<focused, needsPrediction>>
            /\ inputValue' = Str(showPlace(p))
            /\ retrieving' = TRUE
            /\ retrievals' = retrievals \cup {p}
            /\ UNCHANGED <<loading, scheduled, issued, inFlight, placeValue,
                           changes, rejected>>
    /\ UNCHANGED outsidePlacePicker

\* what fetchFields may leave in the place: the promise rejects, or the
\* place has a location or none and a country component or none; a country
\* component carries its short text
FetchOutcomes ==
    {[ok |-> FALSE, location |-> Undefined, country |-> Undefined]}
        \cup [ok : {TRUE},
              location : {Undefined, LatLng(Wgs84)},
              country : {Undefined, Str(<<"U", "S">>)}]
        \cup [ok : {TRUE},
              location : {Undefined, LatLng(Gcj02)},
              country : {Str(<<"C", "N">>)}]

\* the catch block of onOptionSubmit
Caught_KeepText == UNCHANGED inputValue

Caught == inputValue' = Str(<<>>)

\* onOptionSubmit from the await on: fetchFields has settled
FetchFieldsSettles ==
    \E p \in retrievals :
        \E place \in FetchOutcomes :
            /\ retrievals' = retrievals \ {p}
            /\ IF place.ok /\ place.location.t # "undefined"
                           /\ place.country.t # "undefined"
               THEN LET latLng == IF place.country.s = <<"C", "N">>
                                  THEN gcj02ToWgs84(place.location)
                                  ELSE place.location
                        v == Place(p.venue, p.address, place.country, latLng)
                    IN  /\ setValue(v)
                        /\ inputValue' = Str(showPlace(v))
                        /\ UNCHANGED rejected
               ELSE /\ Caught
                    /\ rejected' = Append(rejected, "details")
                    /\ UNCHANGED <<options, changes, placeValue>>
            /\ retrieving' = FALSE
            /\ UNCHANGED <<loading, needsPrediction, focused, scheduled,
                           issued, inFlight>>
    /\ UNCHANGED outsidePlacePicker

\* the state of the component after its first render with the value v
PlacePickerMounted(v) ==
    /\ placeValue = v
    /\ inputValue = InitialInputValue(v)
    /\ loading = FALSE
    /\ retrieving = FALSE
    /\ options = {}
    /\ needsPrediction = FALSE
    /\ focused = FALSE
    /\ scheduled = {}
    /\ issued = 0
    /\ inFlight = {}
    /\ retrievals = {}
    /\ changes = <<>>
    /\ rejected = <<>>

\* the components as the serializer and the pre-fill find them
ComponentsMounted ==
    /\ PlacePickerMounted(Null)
    /\ EditorMounted(DefaultValues, {})
    /\ CachesLoaded

InitPlaces ==
    /\ pc = "idle"
    /\ startDate = [y |-> MinYear, m |-> 0, d |-> 1]
    /\ endDate = startDate
    /\ dates = <<>>
    /\ heap = <<>>
    /\ value = Null
    /\ errors = <<>>
    /\ version = "current"
    /\ result = NoResult
    /\ lastSeen = {}
    /\ log = <<>>
    /\ \E v \in {Null} \cup { Place(venue, Undefined, Undefined, Undefined) :
                                venue \in VenueTexts } :
          PlacePickerMounted(v)
    /\ EditorMounted(DefaultValues, {})
    /\ CachesLoaded

NextPlaces ==
    \/ Focus
    \/ AutocompleteOnChange
    \/ updatePredictions
    \/ SuggestionsResolve
    \/ SuggestionsReject
    \/ onBlur
    \/ onClear
    \/ FreeformOnChange
    \/ onOptionSubmit
    \/ FetchFieldsSettles

SpecPlaces == InitPlaces /\ [][NextPlaces]_vars

-----------------------------------------------------------------------------
(* JSON.stringify of a key or of a value that is no array and no object *)

QuoteChar(c) ==
    IF c = "\"" THEN <<"\\", "\"">>
    ELSE IF c = "\\" THEN <<"\\", "\\">>
    ELSE IF c = "\n" THEN <<"\\", "n">>
    ELSE <<c>>

\* a slip that leaves the characters of a string unescaped
JSONQuote_Raw(s) == <<"\"">> \o s \o <<"\"">>

JSONQuote(s) ==
    <<"\"">> \o Flatten([i \in 1..Len(s) |-> QuoteChar(s[i])]) \o <<"\"">>

\* JSON.stringify(value) for a primitive; JSON.stringify(undefined) is the
\* value undefined, which a template literal prints as "undefined"
JSONstringify(v) ==
    IF v.t = "null" THEN <<"n", "u", "l", "l">>
    ELSE IF v.t = "boolean" THEN
        (IF v.n = 1 THEN <<"t", "r", "u", "e">> ELSE <<"f", "a", "l", "s", "e">>)
    ELSE IF v.t = "number" THEN NumberToChars(v.n)
    ELSE IF v.t = "string" THEN JSONQuote(v.s)
    ELSE <<"u", "n", "d", "e", "f", "i", "n", "e", "d">>

-----------------------------------------------------------------------------
(* Object.keys: the integer-like keys in ascending order, then the other    *)
(* keys in insertion order                                                  *)

IsIndexKey(k) ==
    /\ Len(k) >= 1
    /\ \A i \in 1..Len(k) : IsDigit(k[i])
    /\ (Len(k) > 1 => k[1] # "0")

RECURSIVE IndexValue(_)
IndexValue(k) ==
    IF k = <<>> THEN 0
    ELSE 10 * IndexValue(SubSeq(k, 1, Len(k) - 1)) + DigitValue(k[Len(k)])

\* the positions of the keys of obj, in the order Object.keys lists them
RECURSIVE SortedIndexKeys(_, _)
SortedIndexKeys(keys, left) ==
    IF left = {} THEN <<>>
    ELSE LET i == CHOOSE i \in left :
                    \A j \in left : IndexValue(keys[i]) <= IndexValue(keys[j])
         IN  <<i>> \o SortedIndexKeys(keys, left \ {i})

\* a slip that lists every key in insertion order
KeyOrder_Insertion(obj) == [i \in 1..Len(obj.keys) |-> i]

KeyOrder(obj) ==
    LET keys == obj.keys
        isIndex(i) == IsIndexKey(keys[i])
        others == SelectSeq([i \in 1..Len(keys) |-> i], LAMBDA i : ~isIndex(i))
    IN  SortedIndexKeys(keys, { i \in 1..Len(keys) : isIndex(i) }) \o others

\* a slip that keeps the keys whose value is undefined
PrintedKeys_KeepUndefined(obj) == KeyOrder(obj)

\* Object.keys(value).filter((k) => value[k] !== undefined), as positions
PrintedKeys(obj) ==
    SelectSeq(KeyOrder(obj), LAMBDA i : obj.items[i].t # "undefined")

-----------------------------------------------------------------------------
(* myStringifyWithErrors *)

\* the indent width, space = 2
Space == 2

Indent(depth) == Repeat(<<" ">>, Space * depth)

\* errorsByPath[path] ?? []
ErrorsByPath(errs, path) == SelectSeq(errs, LAMBDA e : e.instancePath = path)

\* the text between "//" and the first message
ErrorPrefix(ver) ==
    IF ver = "current" THEN <<" ", "E", "R", "R", "O", "R", ":", " ">>
    ELSE <<" ">>

Messages(es) == [i \in 1..Len(es) |-> es[i].message]

\* a slip that joins the messages last to first
Annotation_Reversed(errs, ver, path) ==
    LET es == ErrorsByPath(errs, path)
    IN  IF Len(es) > 0
        THEN <<" ", "/", "/">> \o ErrorPrefix(ver)
                \o Join([i \in 1..Len(es) |-> es[Len(es) + 1 - i].message],
                        <<",", " ">>)
        ELSE <<>>

\* errors.length > 0 ? ` // ERROR: ${errors.map((e) => e.message).join(", ")}` : ""
Annotation(errs, ver, path) ==
    LET es == ErrorsByPath(errs, path)
    IN  IF Len(es) > 0
        THEN <<" ", "/", "/">> \o ErrorPrefix(ver) \o Join(Messages(es), <<",", " ">>)
        ELSE <<>>

Returned(text, seen) == [st |-> "text", text |-> text, seen |-> seen]
Thrown(what, seen) == [st |-> what, text |-> <<>>, seen |-> seen]

\* a slip that appends the annotation before the comma
ChildLine_CommentFirst(depth, label, json, last, annotation) ==
    Indent(depth + 1) \o label \o json \o annotation
        \o (IF last THEN <<>> ELSE <<",">>)

\* `${indent.repeat(depth + 1)}${label}${json}${comma}${annotation}`
ChildLine(depth, label, json, last, annotation) ==
    Indent(depth + 1) \o label \o json
        \o (IF last THEN <<>> ELSE <<",">>) \o annotation

\* the recursion depth at which the engine's call stack is exhausted; deeper
\* than any argument without a cycle nests
StackLimit == MaxEntries + 2

\* a slip that marks no object as seen
MarkSeen_Never(seen, id) == seen

\* seen.add(value)
MarkSeen(seen, id) == seen \cup {id}

RECURSIVE stringify(_, _, _, _, _, _, _)
RECURSIVE stringifyChildren(_, _, _, _, _, _, _, _, _)

\* the .map(...) over the elements or the printed keys, from position i on:
\* the lines of the children, and the objects seen when it ends
stringifyChildren(h, errs, ver, parent, id, order, i, depth, seen) ==
    IF i > Len(order) THEN [st |-> "text", lines |-> <<>>, seen |-> seen]
    ELSE
        LET c == h[id]
            pos == order[i]
            step == IF c.array THEN NumberToChars(pos - 1) ELSE c.keys[pos]
            path == parent \o <<"/">> \o step
            label == IF c.array THEN <<>>
                     ELSE JSONQuote(c.keys[pos]) \o <<":", " ">>
            r == stringify(h, errs, ver, path, c.items[pos], depth + 1, seen)
        IN  IF r.st # "text" THEN [st |-> r.st, lines |-> <<>>, seen |-> r.seen]
            ELSE
                LET line == ChildLine(depth, label, r.text, i = Len(order),
                                      Annotation(errs, ver, path))
                    rest == stringifyChildren(h, errs, ver, parent, id, order,
                                              i + 1, depth, r.seen)
                IN  IF rest.st # "text" THEN rest
                    ELSE [st |-> "text", lines |-> <<line>> \o rest.lines,
                          seen |-> rest.seen]

stringify(h, errs, ver, parent, v, depth, seen) ==
    IF depth > StackLimit THEN Thrown("RangeError", seen)
    ELSE IF v.t = "ref" /\ h[v.n].array THEN
        IF Len(h[v.n].items) = 0 THEN Returned(<<"[", "]">>, seen)
        ELSE
            LET order == [i \in 1..Len(h[v.n].items) |-> i]
                r == stringifyChildren(h, errs, ver, parent, v.n, order, 1,
                                       depth, seen)
            IN  IF r.st # "text" THEN Thrown(r.st, r.seen)
                ELSE Returned(<<"[", "\n">> \o Join(r.lines, <<"\n">>)
                                \o <<"\n">> \o Indent(depth) \o <<"]">>, r.seen)
    ELSE IF v.t = "ref" THEN
        IF v.n \in seen THEN Thrown("TypeError", seen)
        ELSE
            LET seen1 == MarkSeen(seen, v.n)
                keys == PrintedKeys(h[v.n])
            IN  IF Len(keys) = 0 THEN Returned(<<"{", "}">>, seen1)
                ELSE
                    LET r == stringifyChildren(h, errs, ver, parent, v.n, keys,
                                               1, depth, seen1)
                    IN  IF r.st # "text" THEN Thrown(r.st, r.seen)
                        ELSE Returned(<<"{", "\n">> \o Join(r.lines, <<"\n">>)
                                        \o <<"\n">> \o Indent(depth) \o <<"}">>,
                                      r.seen)
    ELSE Returned(JSONstringify(v), seen)

\* a slip that keeps one WeakSet for all calls
NewWeakSet_Shared == lastSeen

\* const seen = new WeakSet(), inside the function: empty at every call
NewWeakSet == {}

\* the body of myStringifyWithErrors: stringify("", value, 0) with the
\* WeakSet of this call; its outcome and the WeakSet as the call leaves it
Call(h, v, errs, ver) == stringify(h, errs, ver, <<>>, v, 0, NewWeakSet)

\* what the caller gets: the text, or the error thrown
myStringifyWithErrors(h, v, errs, ver) ==
    LET r == Call(h, v, errs, ver)
    IN  [st |-> r.st, text |-> r.text]

-----------------------------------------------------------------------------
(* The arguments of the serializer.  An argument is drawn as a nested       *)
(* value [t, n, s, keys, items] of at most MaxEntries entries and laid out  *)
(* on the heap in depth-first order; an "alias" entry refers to an array or *)
(* object laid out before it (an ancestor: a cycle; any other: a shared     *)
(* reference).                                                              *)

Atom(v) == [t |-> v.t, n |-> v.n, s |-> v.s, keys |-> <<>>, items |-> <<>>]
Alias(id) == [t |-> "alias", n |-> id, s |-> <<>>, keys |-> <<>>, items |-> <<>>]
NestedArray(items) ==
    [t |-> "array", n |-> 0, s |-> <<>>, keys |-> <<>>, items |-> items]
NestedObject(keys, items) ==
    [t |-> "object", n |-> 0, s |-> <<>>, keys |-> keys, items |-> items]

IsContainer(v) == v.t \in {"array", "object"}

RECURSIVE Size(_)
RECURSIVE SizeOfAll(_)
Size(v) == 1 + SizeOfAll(v.items)
SizeOfAll(vs) == IF vs = <<>> THEN 0 ELSE Size(Head(vs)) + SizeOfAll(Tail(vs))

\* the sequences of n distinct keys
RECURSIVE KeyLists(_, _)
KeyLists(keys, n) ==
    IF n = 0 THEN {<<>>}
    ELSE UNION { { <<k>> \o rest : rest \in KeyLists(keys \ {k}, n - 1) } :
                 k \in keys }

RECURSIVE NestedValues(_, _, _)
RECURSIVE EntryLists(_, _, _)
\* the sequences of nested values of at most b entries in all
EntryLists(b, atoms, keys) ==
    IF b = 0 THEN {<<>>}
    ELSE {<<>>} \cup
         UNION { { <<v>> \o rest : rest \in EntryLists(b - Size(v), atoms, keys) } :
                 v \in NestedValues(b, atoms, keys) }

\* the nested values of at most b entries, itself counted; an array holds no
\* undefined
NestedValues(b, atoms, keys) ==
    IF b = 0 THEN {}
    ELSE LET lists == EntryLists(b - 1, atoms, keys)
         IN  atoms
             \cup { NestedArray(es) :
                    es \in { l \in lists :
                             \A i \in 1..Len(l) : l[i].t # "undefined" } }
             \cup UNION { { NestedObject(ks, es) :
                            ks \in KeyLists(keys, Len(es)) } :
                          es \in { l \in lists : Len(l) <= Cardinality(keys) } }

RECURSIVE Layout(_, _)
RECURSIVE LayoutAll(_, _, _)
\* lays v out on heap h: the value that refers to it, the heap, and whether
\* every alias referred to an array or object already laid out
Layout(v, h) ==
    IF v.t = "alias" THEN [ok |-> v.n <= Len(h), val |-> Ref(v.n), h |-> h]
    ELSE IF ~IsContainer(v) THEN
        [ok |-> TRUE, val |-> [t |-> v.t, n |-> v.n, s |-> v.s], h |-> h]
    ELSE
        LET id == Len(h) + 1
            r == LayoutAll(v.items, 1, Append(h, ArrayOf(<<>>)))
            made == IF v.t = "array" THEN ArrayOf(r.vals)
                    ELSE ObjectOf(v.keys, r.vals)
        IN  [ok |-> r.ok, val |-> Ref(id), h |-> [r.h EXCEPT ![id] = made]]

LayoutAll(vs, i, h) ==
    IF i > Len(vs) THEN [ok |-> TRUE, vals |-> <<>>, h |-> h]
    ELSE LET r == Layout(vs[i], h)
         IN  IF ~r.ok THEN [ok |-> FALSE, vals |-> <<>>, h |-> h]
             ELSE LET rest == LayoutAll(vs, i + 1, r.h)
                  IN  [ok |-> rest.ok, vals |-> <<r.val>> \o rest.vals,
                       h |-> rest.h]

\* the arguments (value, heap) of at most b entries drawn from the given
\* atoms and keys
Arguments(b, atoms, keys) ==
    { [value |-> l.val, heap |-> l.h] :
      l \in { r \in { Layout(v, <<>>) :
                      v \in { w \in NestedValues(b + 1, atoms, keys) :
                              w.t # "undefined" } } : r.ok } }

\* the lists of at most n validation errors over the given paths and messages
RECURSIVE ErrorLists(_, _, _)
ErrorLists(n, paths, messages) ==
    IF n = 0 THEN {<<>>}
    ELSE {<<>>} \cup
         { <<[instancePath |-> p, message |-> m]>> \o rest :
           p \in paths, m \in messages,
           rest \in ErrorLists(n - 1, paths, messages) }

KeyA == <<"a">>
KeyB == <<"b">>
KeyAB == <<"a", "/", "b">>
KeyOne == <<"1">>
KeyQuote == <<"q", "\"">>
KeyTwo == <<"2">>
KeyTen == <<"1", "0">>

Leaves ==
    { Atom(Null), Atom(Bool(TRUE)), Atom(Bool(FALSE)), Atom(Num(0)), Atom(Num(7)),
      Atom(Num(0 - 12)), Atom(Str(<<>>)), Atom(Str(<<"a">>)),
      Atom(Str(<<"/", "/", "\"", "\\", "\n">>)) }

\* every kind of leaf, alone or as the one entry of an array or an object
LeafArguments == Arguments(1, Leaves, {KeyA})

\* plain data: numbers, strings that need escaping, undefined-valued keys,
\* an integer-like key and a key that needs escaping
PlainArguments ==
    Arguments(MaxEntries,
              { Atom(Num(0 - 12)), Atom(Str(<<"/", "/", "\"", "\\", "\n">>)),
                Atom(Undefined) },
              {KeyOne, KeyQuote})

\* small data with lists of validation errors
ErrorMessages == { <<"m">>, <<"n", "o">> }
AnnotatedArguments == Arguments(2, {Atom(Num(1)), Atom(Undefined)}, {KeyA, KeyB})
AnnotatedErrors ==
    ErrorLists(MaxErrors, { <<>>, <<"/", "a">>, <<"/", "a", "/", "b">> },
               ErrorMessages) \ {<<>>}

\* larger data with one validation error, serialized by either version
DeepArguments == Arguments(MaxEntries, {Atom(Num(1))}, {KeyA, KeyB})
DeepErrors ==
    ErrorLists(1, { <<"/", "0">>, <<"/", "a", "/", "0">>, <<"/", "0", "/", "a">> },
               {<<"m">>}) \ {<<>>}

\* data with a key that contains "/", and errors at the path /a/b
HasKey(h, k) == \E id \in 1..Len(h) : \E i \in 1..Len(h[id].keys) : h[id].keys[i] = k
SlashKeyArguments ==
    { a \in Arguments(3, {Atom(Num(1))}, {KeyA, KeyB, KeyAB}) : HasKey(a.heap, KeyAB) }
SlashKeyErrors == ErrorLists(2, { <<"/", "a", "/", "b">> }, ErrorMessages) \ {<<>>}

\* object graphs: shared references and cycles
GraphArguments ==
    Arguments(MaxEntries, {Atom(Num(1))} \cup { Alias(i) : i \in 1..MaxEntries },
              {KeyA, KeyB})

\* objects of up to three keys, some undefined-valued, two of them
\* integer-like, with or without an error at /a
OmittedArguments ==
    Arguments(MaxEntries, {Atom(Num(1)), Atom(Undefined)}, {KeyA, KeyTen, KeyTwo})
OmittedErrors == ErrorLists(1, { <<"/", "a">> }, {<<"m">>})

InitPlain ==
    /\ \E a \in PlainArguments \cup LeafArguments : value = a.value /\ heap = a.heap
    /\ errors = <<>>
    /\ version = "current"

InitAnnotated ==
    /\ \E a \in AnnotatedArguments : value = a.value /\ heap = a.heap
    /\ errors \in AnnotatedErrors
    /\ version = "current"

InitDeep ==
    /\ \E a \in DeepArguments : value = a.value /\ heap = a.heap
    /\ errors \in DeepErrors
    /\ version \in {"current", "earlier"}

InitSlashKeys ==
    /\ \E a \in SlashKeyArguments : value = a.value /\ heap = a.heap
    /\ errors \in SlashKeyErrors
    /\ version = "current"

InitGraphs ==
    /\ \E a \in GraphArguments : value = a.value /\ heap = a.heap
    /\ errors = <<>>
    /\ version = "current"

InitOmitted ==
    /\ \E a \in OmittedArguments : value = a.value /\ heap = a.heap
    /\ errors \in OmittedErrors
    /\ version = "current"

Init ==
    /\ pc = "call"
    /\ startDate = [y |-> MinYear, m |-> 0, d |-> 1]
    /\ endDate = startDate
    /\ dates = <<>>
    /\ result = NoResult
    /\ lastSeen = {}
    /\ log = <<>>
    /\ ComponentsMounted
    /\ \/ InitPlain \/ InitAnnotated \/ InitDeep \/ InitSlashKeys \/ InitGraphs
       \/ InitOmitted

\* one entry of the log: the arguments as they were passed, and the outcome
Logged(h, v, errs, r) == [heap |-> h, value |-> v, errors |-> errs, result |-> r]

\* raw = myStringifyWithErrors(outputSeries, validationErrors)
Serialize ==
    /\ pc = "call"
    /\ result' = myStringifyWithErrors(heap, value, errors, version)
    /\ lastSeen' = Call(heap, value, errors, version).seen
    /\ log' = Append(log, Logged(heap, value, errors, result'))
    /\ pc' = "returned"
    /\ UNCHANGED <<heap, value, errors, version>>
    /\ UNCHANGED dateVars
    /\ UNCHANGED componentVars

Next == Serialize

Spec == Init /\ [][Next]_vars

-----------------------------------------------------------------------------
(* The Editor's repeated calls: raw is recomputed whenever the validation   *)
(* errors or the output change                                              *)

\* the error lists of the repeated calls
CallErrors == ErrorLists(1, { <<"/", "a">> }, {<<"m">>})

InitCalls ==
    /\ pc = "call"
    /\ startDate = [y |-> MinYear, m |-> 0, d |-> 1]
    /\ endDate = startDate
    /\ dates = <<>>
    /\ result = NoResult
    /\ lastSeen = {}
    /\ log = <<>>
    /\ ComponentsMounted
    /\ \E a \in AnnotatedArguments : value = a.value /\ heap = a.heap
    /\ errors \in CallErrors
    /\ version = "current"

\* the memo is recomputed: the same output is serialized once more, with
\* the validation errors of this render
SerializeAgain ==
    /\ pc = "returned"
    /\ Len(log) < MaxCalls
    /\ \E errs \in CallErrors :
          /\ errors' = errs
          /\ result' = myStringifyWithErrors(heap, value, errs, version)
          /\ lastSeen' = Call(heap, value, errs, version).seen
          /\ log' = Append(log, Logged(heap, value, errs, result'))
    /\ UNCHANGED <<pc, heap, value, version>>
    /\ UNCHANGED dateVars
    /\ UNCHANGED componentVars

NextCalls == Serialize \/ SerializeAgain

SpecCalls == InitCalls /\ [][NextCalls]_vars

-----------------------------------------------------------------------------
(* Vocabulary of the serializer claims *)

Returned_ == pc = "returned"

\* the ids of the arrays and objects held directly by container id
Children(h, id) ==
    { h[id].items[i].n : i \in { j \in 1..Len(h[id].items) : h[id].items[j].t = "ref" } }

RECURSIVE ReachableFrom(_, _, _)
\* the containers reachable from those of ids in at most n steps
ReachableFrom(h, ids, n) ==
    IF n = 0 THEN ids
    ELSE ReachableFrom(h, ids \cup UNION { Children(h, id) : id \in ids }, n - 1)

\* the containers that container id contains, directly or transitively
Descendants(h, id) == ReachableFrom(h, Children(h, id), Len(h))

\* some array or object is its own descendant
HasCycle(h) == \E id \in 1..Len(h) : id \in Descendants(h, id)

\* some object (mapping) is its own descendant
HasObjectCycle(h) == \E id \in 1..Len(h) : ~h[id].array /\ id \in Descendants(h, id)

\* the number of entries that hold a reference to container id
ReferencesTo(h, id) ==
    Cardinality({ e \in UNION { { <<c, i>> : i \in 1..Len(h[c].items) } :
                                c \in 1..Len(h) } :
                  h[e[1]].items[e[2]] = Ref(id) })

\* the argument is a tree: the root is referenced by no entry and every
\* other array or object by exactly one
IsTree(h, v) ==
    \A id \in 1..Len(h) : ReferencesTo(h, id) = (IF v = Ref(id) THEN 0 ELSE 1)

\* some array or object is referenced from two entries although none is its
\* own descendant
IsShared(h, v) == ~HasCycle(h) /\ ~IsTree(h, v)

\* a JSON document as a value: an array by its elements in order, an object
\* by its set of <<key, member>> pairs
Doc(t, n, s, items, members) ==
    [t |-> t, n |-> n, s |-> s, items |-> items, members |-> members]

RECURSIVE Denote(_, _)
\* the document a tree-shaped value stands for, its undefined-valued keys
\* removed
Denote(h, v) ==
    IF v.t # "ref" THEN Doc(v.t, v.n, v.s, <<>>, {})
    ELSE IF h[v.n].array THEN
        Doc("array", 0, <<>>,
            [i \in 1..Len(h[v.n].items) |-> Denote(h, h[v.n].items[i])], {})
    ELSE
        Doc("object", 0, <<>>, <<>>,
            { <<h[v.n].keys[i], Denote(h, h[v.n].items[i])>> :
              i \in { j \in 1..Len(h[v.n].items) :
                      h[v.n].items[j].t # "undefined" } })

-----------------------------------------------------------------------------
(* A parser of standard JSON (RFC 8259), character by character.  Every     *)
(* operator takes the text t and a position i and answers [ok, doc, at]:    *)
(* whether a construct was read, the document read, the position after it.  *)

Failed == [ok |-> FALSE, doc |-> Doc("none", 0, <<>>, <<>>, {}), at |-> 0]
Read(doc, at) == [ok |-> TRUE, doc |-> doc, at |-> at]

CharAt(t, i) == IF i <= Len(t) THEN t[i] ELSE "EOF"

IsWhitespace(c) == c \in {" ", "\n", "\t", "\r"}

RECURSIVE SkipWhitespace(_, _)
SkipWhitespace(t, i) ==
    IF IsWhitespace(CharAt(t, i)) THEN SkipWhitespace(t, i + 1) ELSE i

HasWord(t, i, w) ==
    /\ i + Len(w) - 1 <= Len(t)
    /\ SubSeq(t, i, i + Len(w) - 1) = w

RECURSIVE ParseDigits(_, _, _)
\* the digits from position i on, n being the number read so far
ParseDigits(t, i, n) ==
    IF IsDigit(CharAt(t, i))
    THEN ParseDigits(t, i + 1, 10 * n + DigitValue(t[i]))
    ELSE [n |-> n, at |-> i]

\* an integer: -? (0 | [1-9][0-9]*); a fraction or exponent is not read
ParseNumber(t, i) ==
    LET neg == CharAt(t, i) = "-"
        j == IF neg THEN i + 1 ELSE i
        r == ParseDigits(t, j, 0)
    IN  IF ~IsDigit(CharAt(t, j)) THEN Failed
        ELSE IF t[j] = "0" /\ r.at > j + 1 THEN Failed
        ELSE IF CharAt(t, r.at) \in {".", "e", "E"} THEN Failed
        ELSE Read(Doc("number", IF neg THEN 0 - r.n ELSE r.n, <<>>, <<>>, {}), r.at)

RECURSIVE ParseChars(_, _, _)
\* the characters of a string up to its closing quote, i being after the
\* opening quote and acc the characters read so far
ParseChars(t, i, acc) ==
    LET c == CharAt(t, i)
    IN  IF c = "EOF" \/ c \in {"\n", "\t", "\r"} THEN Failed
        ELSE IF c = "\"" THEN Read(Doc("string", 0, acc, <<>>, {}), i + 1)
        ELSE IF c = "\\" THEN
            LET e == CharAt(t, i + 1)
            IN  IF e \in {"\"", "\\", "/"} THEN ParseChars(t, i + 2, Append(acc, e))
                ELSE IF e = "n" THEN ParseChars(t, i + 2, Append(acc, "\n"))
                ELSE IF e = "t" THEN ParseChars(t, i + 2, Append(acc, "\t"))
                ELSE IF e = "r" THEN ParseChars(t, i + 2, Append(acc, "\r"))
                ELSE Failed
        ELSE ParseChars(t, i + 1, Append(acc, c))

ParseString(t, i) ==
    IF CharAt(t, i) = "\"" THEN ParseChars(t, i + 1, <<>>) ELSE Failed

RECURSIVE ParseValue(_, _)
RECURSIVE ParseElements(_, _, _)
RECURSIVE ParseMembers(_, _, _)

\* the elements of an array after "[" or ",": i is at an element
ParseElements(t, i, acc) ==
    LET r == ParseValue(t, i)
        j == SkipWhitespace(t, r.at)
    IN  IF ~r.ok THEN Failed
        ELSE IF CharAt(t, j) = "," THEN ParseElements(t, j + 1, Append(acc, r.doc))
        ELSE IF CharAt(t, j) = "]"
        THEN Read(Doc("array", 0, <<>>, Append(acc, r.doc), {}), j + 1)
        ELSE Failed

\* the members of an object after "{" or ",": i is before a key; a key read
\* again replaces the member read before
ParseMembers(t, i, acc) ==
    LET k == ParseString(t, SkipWhitespace(t, i))
        c == SkipWhitespace(t, k.at)
        r == ParseValue(t, c + 1)
        j == SkipWhitespace(t, r.at)
        members == { m \in acc : m[1] # k.doc.s } \cup {<<k.doc.s, r.doc>>}
    IN  IF ~k.ok \/ CharAt(t, c) # ":" THEN Failed
        ELSE IF ~r.ok THEN Failed
        ELSE IF CharAt(t, j) = "," THEN ParseMembers(t, j + 1, members)
        ELSE IF CharAt(t, j) = "}"
        THEN Read(Doc("object", 0, <<>>, <<>>, members), j + 1)
        ELSE Failed

ParseValue(t, i0) ==
    LET i == SkipWhitespace(t, i0)
        c == CharAt(t, i)
    IN  IF HasWord(t, i, <<"n", "u", "l", "l">>)
        THEN Read(Doc("null", 0, <<>>, <<>>, {}), i + 4)
        ELSE IF HasWord(t, i, <<"t", "r", "u", "e">>)
        THEN Read(Doc("boolean", 1, <<>>, <<>>, {}), i + 4)
        ELSE IF HasWord(t, i, <<"f", "a", "l", "s", "e">>)
        THEN Read(Doc("boolean", 0, <<>>, <<>>, {}), i + 5)
        ELSE IF c = "\"" THEN ParseString(t, i)
        ELSE IF c = "-" \/ IsDigit(c) THEN ParseNumber(t, i)
        ELSE IF c = "[" THEN
            (IF CharAt(t, SkipWhitespace(t, i + 1)) = "]"
             THEN Read(Doc("array", 0, <<>>, <<>>, {}), SkipWhitespace(t, i + 1) + 1)
             ELSE ParseElements(t, i + 1, <<>>))
        ELSE IF c = "{" THEN
            (IF CharAt(t, SkipWhitespace(t, i + 1)) = "}"
             THEN Read(Doc("object", 0, <<>>, <<>>, {}), SkipWhitespace(t, i + 1) + 1)
             ELSE ParseMembers(t, i + 1, {}))
        ELSE Failed

\* JSON.parse: one value and nothing but whitespace after it
ParseJSON(t) ==
    LET r == ParseValue(t, 1)
    IN  IF r.ok /\ SkipWhitespace(t, r.at) = Len(t) + 1
        THEN [ok |-> TRUE, doc |-> r.doc]
        ELSE [ok |-> FALSE, doc |-> Failed.doc]

-----------------------------------------------------------------------------
(* Claims about the serializer, checked under Spec *)

\* C4: for a tree-shaped value (null, booleans, numbers, strings, arrays,
\* objects, some keys undefined) and an empty error list, the returned text
\* parses as standard JSON (so it holds no annotation) to a document
\* deep-equal to the value with its undefined-valued keys removed.
C4_RoundTrip ==
    (Returned_ /\ errors = <<>> /\ IsTree(heap, value)) =>
        /\ result.st = "text"
        /\ ParseJSON(result.text) = [ok |-> TRUE, doc |-> Denote(heap, value)]

\* C4 witness: a returned text for a nested value with an undefined-valued
\* key and a string that needs escaping
C4_Witness ==
    /\ Returned_ /\ errors = <<>> /\ IsTree(heap, value)
    /\ Len(heap) >= 2
    /\ \E id \in 1..Len(heap) :
          /\ ~heap[id].array
          /\ \E i, j \in 1..Len(heap[id].items) :
                /\ heap[id].items[i].t = "undefined"
                /\ heap[id].items[j].t = "string"
                /\ heap[id].items[j].s # <<>>
    /\ result.st = "text"

-----------------------------------------------------------------------------
(* The lines of a text and the nodes printed on them *)

RECURSIVE SplitLines(_, _)
\* the lines of text t; acc is the line being read
SplitLines(t, acc) ==
    IF t = <<>> THEN <<acc>>
    ELSE IF Head(t) = "\n" THEN <<acc>> \o SplitLines(Tail(t), <<>>)
    ELSE SplitLines(Tail(t), Append(acc, Head(t)))

Lines(t) == SplitLines(t, <<>>)

RECURSIVE CommentStart(_, _, _)
\* the position of the first "/" of line l outside a string literal, from
\* position i on, or 0 when there is none
CommentStart(l, i, inString) ==
    IF i > Len(l) THEN 0
    ELSE IF inString THEN
        (IF l[i] = "\\" THEN CommentStart(l, i + 2, TRUE)
         ELSE CommentStart(l, i + 1, l[i] # "\""))
    ELSE IF l[i] = "/" THEN i
    ELSE CommentStart(l, i + 1, l[i] = "\"")

\* the annotation of line l, from its "//" on, and the JSON text before it
Comment(l) ==
    LET c == CommentStart(l, 1, FALSE)
    IN  IF c = 0 THEN <<>> ELSE SubSeq(l, c, Len(l))
BeforeComment(l) ==
    LET c == CommentStart(l, 1, FALSE)
    IN  IF c = 0 THEN l ELSE SubSeq(l, 1, c - 1)

\* w occurs in t as a run of consecutive characters
Occurs(w, t) ==
    \E i \in 1..(Len(t) - Len(w) + 1) : SubSeq(t, i, i + Len(w) - 1) = w

EndsWith(t, w) ==
    Len(t) >= Len(w) /\ SubSeq(t, Len(t) - Len(w) + 1, Len(t)) = w

\* the path of the entry at position pos of container c, whose path is parent
ChildPath(c, parent, pos) ==
    parent \o <<"/">> \o (IF c.array THEN NumberToChars(pos - 1) ELSE c.keys[pos])

\* the entries of container c that are printed, in the order of printing
PrintedEntries(c) ==
    IF c.array THEN [i \in 1..Len(c.items) |-> i]
    ELSE SelectSeq(KeyOrder(c), LAMBDA i : c.items[i].t # "undefined")

RECURSIVE LineCount(_, _)
RECURSIVE LineCountOfEntries(_, _, _, _)
\* the number of lines value v is printed on
LineCount(h, v) ==
    IF v.t # "ref" \/ PrintedEntries(h[v.n]) = <<>> THEN 1
    ELSE 2 + LineCountOfEntries(h, v.n, PrintedEntries(h[v.n]), 1)

LineCountOfEntries(h, id, entries, i) ==
    IF i > Len(entries) THEN 0
    ELSE LineCount(h, h[id].items[entries[i]])
            + LineCountOfEntries(h, id, entries, i + 1)

\* what is printed before the value of the entry at position pos of container
\* c: nothing in an array, the quoted key, a colon and a space in an object
EntryLabel(c, pos) ==
    IF c.array THEN <<>> ELSE JSONQuote(c.keys[pos]) \o <<":", " ">>

RECURSIVE Nodes(_, _, _, _, _, _, _)
RECURSIVE NodesOfEntries(_, _, _, _, _, _, _)
\* the nodes printed for value v, which opens on line `line`, in the order
\* of printing: each with its path, its depth, the label printed before it,
\* the line it opens on, the line it closes on (where its text ends and an
\* annotation would stand), and whether it is the last printed entry of its
\* container
Nodes(h, v, path, label, depth, line, last) ==
    <<[path |-> path, depth |-> depth, label |-> label, value |-> v,
       open |-> line, close |-> line + LineCount(h, v) - 1, last |-> last]>>
    \o (IF v.t # "ref" THEN <<>>
        ELSE NodesOfEntries(h, v.n, PrintedEntries(h[v.n]), 1, path, depth + 1,
                            line + 1))

NodesOfEntries(h, id, entries, i, parent, depth, line) ==
    IF i > Len(entries) THEN <<>>
    ELSE LET child == h[id].items[entries[i]]
         IN  Nodes(h, child, ChildPath(h[id], parent, entries[i]),
                   EntryLabel(h[id], entries[i]), depth, line, i = Len(entries))
             \o NodesOfEntries(h, id, entries, i + 1, parent, depth,
                               line + LineCount(h, child))

\* the nodes of the argument once text has been returned: the root first
PrintedNodes == Nodes(heap, value, <<>>, <<>>, 0, 1, TRUE)
\* the nodes below the root
ChildNodes == Tail(PrintedNodes)

TextReturned == pc = "returned" /\ result.st = "text"

ResultLines == Lines(result.text)

\* the messages of the errors whose instancePath is path, in list order
MessagesAt(path) ==
    LET es == SelectSeq(errors, LAMBDA e : e.instancePath = path)
    IN  [i \in 1..Len(es) |-> es[i].message]

AllMessages == { errors[i].message : i \in 1..Len(errors) }

\* some node of `nodes` closes on line l and has a path at which an error
\* with message m is reported
ErrorOnLine(nodes, l, m) ==
    \E i \in 1..Len(nodes) :
        /\ nodes[i].close = l
        /\ \E j \in 1..Len(errors) :
              errors[j].instancePath = nodes[i].path /\ errors[j].message = m

-----------------------------------------------------------------------------
(* Claims about annotations *)

\* C5: a printed line carries an annotation containing an error's message if
\* and only if the node printed on that line (the root included) has a path
\* exactly equal to that error's instancePath; an error whose path addresses
\* no printed node annotates no line and causes no failure.
C5_ExactPathAnnotation ==
    TextReturned =>
        \A l \in 1..Len(ResultLines) : \A m \in AllMessages :
            Occurs(m, Comment(ResultLines[l])) <=> ErrorOnLine(PrintedNodes, l, m)

\* C5 apart from the root: the same, for the nodes below the root
C5_ExactPathBelowRoot ==
    TextReturned =>
        \A l \in 1..Len(ResultLines) : \A m \in AllMessages :
            Occurs(m, Comment(ResultLines[l])) <=> ErrorOnLine(ChildNodes, l, m)

\* C6: every validation error whose instancePath addresses a node of the
\* serialized tree, the root included, has its message in the returned text.
C6_NoErrorDropped ==
    TextReturned =>
        \A j \in 1..Len(errors) :
            (\E i \in 1..Len(PrintedNodes) :
                PrintedNodes[i].path = errors[j].instancePath)
            => \E l \in 1..Len(ResultLines) :
                   Occurs(errors[j].message, Comment(ResultLines[l]))

\* C6 apart from the root: every error that addresses a node below the root
\* has its message on the line that node closes on
C6_NoErrorDroppedBelowRoot ==
    TextReturned =>
        \A j \in 1..Len(errors) : \A i \in 1..Len(ChildNodes) :
            ChildNodes[i].path = errors[j].instancePath
            => Occurs(errors[j].message, Comment(ResultLines[ChildNodes[i].close]))

\* the annotation the claims describe for the messages ms: " // m1, m2"
PlainAnnotation(ms) == <<" ", "/", "/", " ">> \o Join(ms, <<",", " ">>)

\* the annotation with the word ERROR: " // ERROR: m1, m2"
ErrorAnnotation(ms) ==
    <<" ", "/", "/", " ", "E", "R", "R", "O", "R", ":", " ">> \o Join(ms, <<",", " ">>)

\* line l is the JSON text of a node, with a comma exactly when the node is
\* not the last entry of its container, followed by annotation a and nothing
\* else
AnnotatedBy(l, node, a) ==
    /\ EndsWith(l, a)
    /\ BeforeComment(l) \o SubSeq(a, 2, Len(a)) = l
    /\ LET json == SubSeq(l, 1, Len(l) - Len(a))
       IN  (json # <<>> /\ json[Len(json)] = ",") <=> ~node.last

\* C7: an annotated line ends with " // " and then the messages
\* of the errors of its path joined by ", ", after the line's trailing comma
\* if it has one, with nothing between "// " and the first message.
C7_PlainAnnotation ==
    TextReturned =>
        \A i \in 1..Len(ChildNodes) :
            LET node == ChildNodes[i]
            IN  MessagesAt(node.path) # <<>> =>
                    AnnotatedBy(ResultLines[node.close], node,
                                PlainAnnotation(MessagesAt(node.path)))

\* C7 with the prefix the source prints: an annotated line ends with
\* " // ERROR: " (in the earlier version of the serializer: " // ") and then
\* the messages of the errors of its path joined by ", ", after the line's
\* trailing comma if it has one.
C7_ErrorAnnotation ==
    TextReturned =>
        \A i \in 1..Len(ChildNodes) :
            LET node == ChildNodes[i]
                ms == MessagesAt(node.path)
            IN  ms # <<>> =>
                    AnnotatedBy(ResultLines[node.close], node,
                                IF version = "current" THEN ErrorAnnotation(ms)
                                ELSE PlainAnnotation(ms))

\* C7 witness: the current version has annotated a line that ends in a
\* comma, with two messages
C7_Witness ==
    /\ TextReturned /\ version = "current"
    /\ \E i \in 1..Len(ChildNodes) :
          /\ ~ChildNodes[i].last
          /\ Len(MessagesAt(ChildNodes[i].path)) = 2
          /\ Occurs(<<",", " ", "/", "/", " ", "E">>, ResultLines[ChildNodes[i].close])

\* C8: when several errors share one instancePath that addresses a printed
\* node, all their messages appear on the single line of that node, in the
\* order of the error list, and on no other line.
C8_SharedPathOneLine ==
    TextReturned =>
        \A i \in 1..Len(ChildNodes) :
            LET node == ChildNodes[i]
                ms == MessagesAt(node.path)
            IN  Len(ms) >= 2 =>
                    /\ EndsWith(ResultLines[node.close], Join(ms, <<",", " ">>))
                    /\ \A l \in 1..Len(ResultLines) :
                          l # node.close =>
                              \A k \in 1..Len(ms) :
                                  ~Occurs(ms[k], Comment(ResultLines[l]))

\* C8 apart from colliding paths: the messages of the errors that share a
\* path are on the line of every node with that path, in list order
C8_SharedPathInOrder ==
    TextReturned =>
        \A i \in 1..Len(ChildNodes) :
            LET node == ChildNodes[i]
                ms == MessagesAt(node.path)
            IN  Len(ms) >= 2 =>
                    EndsWith(ResultLines[node.close], Join(ms, <<",", " ">>))

-----------------------------------------------------------------------------
(* Claims about cycles and shared references *)

\* the ids of the arrays held directly by container id
ArrayChildren(h, id) == { c \in Children(h, id) : h[c].array }

RECURSIVE ArraysReachableFrom(_, _, _)
ArraysReachableFrom(h, ids, n) ==
    IF n = 0 THEN ids
    ELSE ArraysReachableFrom(h, ids \cup UNION { ArrayChildren(h, id) : id \in ids },
                             n - 1)

\* some array is its own descendant through arrays alone
HasArrayCycle(h) ==
    \E id \in 1..Len(h) :
        h[id].array /\ id \in ArraysReachableFrom(h, ArrayChildren(h, id), Len(h))

\* C9: if the argument contains an object that contains itself, directly or
\* through any chain of objects and arrays, the call signals the TypeError
\* "Converting circular structure to JSON" and returns no text.
C9_ObjectCycleTypeError ==
    (Returned_ /\ HasObjectCycle(heap)) =>
        result.st = "TypeError" /\ result.text = <<>>

\* C9 apart from cycles of arrays: the TypeError is signalled when no array
\* contains itself through arrays alone, and no text is returned in any case
C9_ObjectCycleNoText ==
    (Returned_ /\ HasObjectCycle(heap)) =>
        /\ result.st \in {"TypeError", "RangeError"}
        /\ result.text = <<>>
        /\ ~HasArrayCycle(heap) => result.st = "TypeError"

\* C10: the call fails only on cycles: whenever no array or object is its own
\* descendant, also when one is referenced from two positions, it returns
\* text and does not throw.
C10_FailsOnlyOnCycles ==
    (Returned_ /\ ~HasCycle(heap)) => result.st = "text"

\* C10 apart from shared references: without a cycle the call returns text
\* for every tree, and otherwise text or the TypeError
C10_TreesReturnText ==
    (Returned_ /\ ~HasCycle(heap)) =>
        /\ IsTree(heap, value) => result.st = "text"
        /\ result.st \in {"text", "TypeError"}

-----------------------------------------------------------------------------
(* Claims about termination *)

\* C11: every call ends by returning text or by signalling the circular
\* structure (TypeError), and every reference cycle of the argument, through
\* objects, through arrays only, or both, is detected: it ends in the
\* TypeError and not in unbounded traversal.
C11_EveryCycleDetected ==
    Returned_ =>
        /\ result.st \in {"text", "TypeError"}
        /\ HasCycle(heap) => result.st = "TypeError"

\* C11 apart from arrays that contain themselves: a cycle only ends the call
\* otherwise than by text or the TypeError when it passes through an array,
\* and then the call stack is exhausted
C11_UnboundedOnlyThroughArrays ==
    Returned_ =>
        /\ result.st \in {"text", "TypeError", "RangeError"}
        /\ result.st = "RangeError" =>
              \E id \in 1..Len(heap) : heap[id].array /\ id \in Descendants(heap, id)

\* an array that holds itself and nothing else has exhausted the call stack
C11_SelfArray ==
    /\ Returned_
    /\ heap = <<ArrayOf(<<Ref(1)>>)>>
    /\ value = Ref(1)
    /\ result.st = "RangeError"

-----------------------------------------------------------------------------
(* Claims about omitted entries and empty containers *)

\* line l without its annotation: the text before " //"
StripAnnotation(l) ==
    LET c == CommentStart(l, 1, FALSE)
    IN  IF c = 0 THEN l ELSE SubSeq(l, 1, c - 2)

StartsWith(t, w) == Len(t) >= Len(w) /\ SubSeq(t, 1, Len(w)) = w

\* container c has an undefined-valued key after its last printed entry
HasTrailingUndefined(c) ==
    /\ ~c.array
    /\ PrintedEntries(c) # <<>>
    /\ c.items[KeyOrder(c)[Len(c.keys)]].t = "undefined"

\* C12: an object entry whose value is undefined is not printed (not as
\* null either) and produces no line: the text has exactly the lines of the
\* printed entries, each opening with its own key; and among the printed
\* entries of a container every one but the last is followed by a comma and
\* the last is not, also when undefined-valued keys follow it.
C12_OmissionRule ==
    TextReturned =>
        LET lines == ResultLines
            nodes == ChildNodes
        IN  /\ Len(lines) = LineCount(heap, value)
            /\ \A i \in 1..Len(nodes) :
                  LET node == nodes[i]
                      closing == StripAnnotation(lines[node.close])
                  IN  /\ StartsWith(lines[node.open],
                                    Indent(node.depth) \o node.label)
                      /\ node.value.t # "undefined"
                      /\ (closing # <<>> /\ closing[Len(closing)] = ",")
                             <=> ~node.last

\* C12 witness: an object with two printed entries and an undefined-valued
\* key after them has been printed
C12_Witness ==
    /\ TextReturned
    /\ \E id \in 1..Len(heap) :
          /\ HasTrailingUndefined(heap[id])
          /\ Len(PrintedEntries(heap[id])) = 2

\* value v is an array or an object none of whose entries is printed
IsEmptyContainer(h, v) == v.t = "ref" /\ PrintedEntries(h[v.n]) = <<>>

\* "[]" for an array, "{}" for an object
EmptyText(h, v) == IF h[v.n].array THEN <<"[", "]">> ELSE <<"{", "}">>

\* C13: an empty array is printed as [] and an object with no keys, or with
\* undefined-valued keys only, as {}, on a single line with no line break, at
\* any depth: at the root it is the whole text, below the root it follows the
\* indentation and the label of its entry on one line.
C13_EmptyContainers ==
    TextReturned =>
        LET lines == ResultLines
            nodes == ChildNodes
        IN  /\ IsEmptyContainer(heap, value) => result.text = EmptyText(heap, value)
            /\ \A i \in 1..Len(nodes) :
                  LET node == nodes[i]
                  IN  IsEmptyContainer(heap, node.value) =>
                          StripAnnotation(lines[node.open])
                              = Indent(node.depth) \o node.label
                                  \o EmptyText(heap, node.value)
                                  \o (IF node.last THEN <<>> ELSE <<",">>)
            /\ Len(lines) = LineCount(heap, value)

\* C13 witness: an empty array and an object whose keys are all
\* undefined-valued have been printed below the root
C13_Witness ==
    /\ TextReturned
    /\ \E i, j \in 1..Len(ChildNodes) :
          /\ IsEmptyContainer(heap, ChildNodes[i].value)
          /\ heap[ChildNodes[i].value.n].array
          /\ IsEmptyContainer(heap, ChildNodes[j].value)
          /\ heap[ChildNodes[j].value.n].keys # <<>>

\* the annotation the serializer of either version prints for messages ms
PrintedAnnotation(ms) ==
    IF ms = <<>> THEN <<>>
    ELSE IF version = "current" THEN ErrorAnnotation(ms)
    ELSE PlainAnnotation(ms)

\* C14: an empty array or an empty object (after omission), at any position,
\* the root included, is printed without an annotation on its line, even
\* when an error's instancePath equals the path of that container.
C14_EmptyNeverAnnotated ==
    TextReturned =>
        \A i \in 1..Len(PrintedNodes) :
            IsEmptyContainer(heap, PrintedNodes[i].value) =>
                Comment(ResultLines[PrintedNodes[i].open]) = <<>>

\* C14 as the source has it: an empty array or object below the root is
\* annotated as any other entry is: its line is the indentation, the label,
\* [] or {}, the comma unless it is the last entry, and then the annotation
\* of the errors at its own path, if there are any
C14_EmptyAnnotatedAsAnyEntry ==
    TextReturned =>
        LET lines == ResultLines
            nodes == ChildNodes
        IN  \A i \in 1..Len(nodes) :
                LET node == nodes[i]
                IN  IsEmptyContainer(heap, node.value) =>
                        lines[node.open]
                            = Indent(node.depth) \o node.label
                                \o EmptyText(heap, node.value)
                                \o (IF node.last THEN <<>> ELSE <<",">>)
                                \o PrintedAnnotation(MessagesAt(node.path))

\* C14 witness: an empty array below the root, with two errors at its own
\* path, has been printed with an annotation on its line
C14_Witness ==
    /\ TextReturned
    /\ \E i \in 1..Len(ChildNodes) :
          /\ IsEmptyContainer(heap, ChildNodes[i].value)
          /\ heap[ChildNodes[i].value.n].array
          /\ Len(MessagesAt(ChildNodes[i].path)) = 2
          /\ Comment(ResultLines[ChildNodes[i].open]) # <<>>

-----------------------------------------------------------------------------
(* Claims about the text without its annotations *)

\* the text the serializer returns for the same value and no errors
PlainResult == myStringifyWithErrors(heap, value, <<>>, version)

\* the annotation appended to line l: that of the entry of nodes that closes
\* on it
AnnotationOfLine(nodes, l) ==
    IF \E i \in 1..Len(nodes) : nodes[i].close = l
    THEN PrintedAnnotation(
             MessagesAt(nodes[CHOOSE i \in 1..Len(nodes) : nodes[i].close = l].path))
    ELSE <<>>

\* C15: annotations are additive: the returned text is, line by line, the
\* text returned for the same value and an empty error list with the
\* annotations appended; deleting the annotation of each line gives that
\* text back (same lines, order, indentation and commas), which for a tree
\* parses as JSON to the value.
C15_AnnotationsAdditive ==
    TextReturned =>
        LET plain == Lines(PlainResult.text)
            lines == ResultLines
            nodes == ChildNodes
            stripped == [l \in 1..Len(lines) |-> StripAnnotation(lines[l])]
        IN  /\ PlainResult.st = "text"
            /\ Len(lines) = Len(plain)
            /\ \A l \in 1..Len(lines) :
                  /\ lines[l] = plain[l] \o AnnotationOfLine(nodes, l)
                  /\ stripped[l] = plain[l]
            /\ IsTree(heap, value) =>
                  ParseJSON(Join(stripped, <<"\n">>))
                      = [ok |-> TRUE, doc |-> Denote(heap, value)]

\* C15 witness: a tree has been printed with annotations on two lines, one
\* of them before the last entry of its container
C15_Witness ==
    /\ TextReturned /\ IsTree(heap, value)
    /\ \E i, j \in 1..Len(ChildNodes) :
          /\ ChildNodes[i].close # ChildNodes[j].close
          /\ Comment(ResultLines[ChildNodes[i].close]) # <<>>
          /\ Comment(ResultLines[ChildNodes[j].close]) # <<>>
    /\ \E i \in 1..Len(ChildNodes) :
          ~ChildNodes[i].last /\ Comment(ResultLines[ChildNodes[i].close]) # <<>>

-----------------------------------------------------------------------------
(* Claims about repeated calls, checked under SpecCalls *)

\* C19: the serializer keeps no state between calls and has no effect on its
\* arguments: in any sequence of calls each result depends only on the
\* arguments of that call (two calls with equal arguments return the same,
\* so a tree already serialized is not reported as a cycle), and when a call
\* has ended the value, the heap and the error list are as they were passed.
C19_NoStateBetweenCalls ==
    /\ \A i, j \in 1..Len(log) :
          (/\ log[i].heap = log[j].heap
           /\ log[i].value = log[j].value
           /\ log[i].errors = log[j].errors) => log[i].result = log[j].result
    /\ \A i \in 1..Len(log) :
          log[i].result = myStringifyWithErrors(log[i].heap, log[i].value,
                                                log[i].errors, version)
    /\ Returned_ =>
          /\ log[Len(log)].heap = heap
          /\ log[Len(log)].value = value
          /\ log[Len(log)].errors = errors
          /\ log[Len(log)].result = result

\* C19 witness: an argument with an object in it has been serialized three
\* times, with another error list in between, and the first and the third
\* call returned the same text
C19_Witness ==
    /\ Returned_
    /\ Len(log) = 3
    /\ lastSeen # {}
    /\ log[1].errors = log[3].errors
    /\ log[1].errors # log[2].errors
    /\ log[1].result.st = "text"
    /\ log[3].result = log[1].result
    /\ log[2].result # log[1].result

-----------------------------------------------------------------------------
(* Claims about traversal, paths and layout *)

\* the line, between lines lo and hi, that opens with the label of the entry
\* at position pos of container c at the given depth; 0 when there is none
LineOfEntry(lines, lo, hi, c, pos, depth) ==
    LET found == { l \in (lo + 1)..(hi - 1) :
                     StartsWith(lines[l], Indent(depth) \o EntryLabel(c, pos)) }
    IN  IF Cardinality(found) = 1 THEN CHOOSE l \in found : TRUE ELSE 0

\* Object.keys lists the key at position a of c before the key at position b
ListedBefore(c, a, b) ==
    LET ia == IsIndexKey(c.keys[a])
        ib == IsIndexKey(c.keys[b])
    IN  \/ ia /\ ~ib
        \/ ia /\ ib /\ IndexValue(c.keys[a]) < IndexValue(c.keys[b])
        \/ ~ia /\ ~ib /\ a < b

InsertedBefore(c, a, b) == a < b

\* the entries of every printed object are on lines in the order `before`
EntriesPrintedInOrder(before(_, _, _)) ==
    LET lines == ResultLines
        nodes == PrintedNodes
    IN  \A n \in 1..Len(nodes) :
            LET node == nodes[n]
                c == heap[node.value.n]
                printed == { i \in 1..Len(c.keys) : c.items[i].t # "undefined" }
            IN  (node.value.t = "ref" /\ ~c.array) =>
                    \A a, b \in printed :
                        before(c, a, b) =>
                            LET la == LineOfEntry(lines, node.open, node.close, c,
                                                  a, node.depth + 1)
                                lb == LineOfEntry(lines, node.open, node.close, c,
                                                  b, node.depth + 1)
                            IN  0 < la /\ la < lb

\* the text is laid out as the traversal prescribes: every entry opens on
\* its own line, indented by its depth and opened by its label; an array or
\* object with printed entries opens with its bracket, holds its entries
\* depth-first on the following lines and closes on a line of its own,
\* indented like its opening line; and the line an entry closes on carries
\* the annotation of exactly the errors whose instancePath is the entry's
\* path: P/i for the element at index i and P/k for the entry of key k of the
\* container with path P, the root having the path ""
LaidOutByTraversal ==
    LET lines == ResultLines
        nodes == ChildNodes
    IN  /\ Len(lines) = LineCount(heap, value)
        /\ \A n \in 1..Len(nodes) :
              LET node == nodes[n]
                  comma == IF node.last THEN <<>> ELSE <<",">>
                  annotation == PrintedAnnotation(MessagesAt(node.path))
              IN  IF node.open = node.close
                  THEN lines[node.open]
                          = Indent(node.depth) \o node.label
                              \o (IF node.value.t = "ref"
                                  THEN EmptyText(heap, node.value)
                                  ELSE JSONstringify(node.value))
                              \o comma \o annotation
                  ELSE /\ lines[node.open]
                             = Indent(node.depth) \o node.label
                                 \o <<EmptyText(heap, node.value)[1]>>
                       /\ lines[node.close]
                             = Indent(node.depth)
                                 \o <<EmptyText(heap, node.value)[2]>>
                                 \o comma \o annotation

\* C20: the root has path "", the element at index i of an array with path P
\* has path P/i and the entry of key k of an object with path P has path
\* P/k; the children are printed depth-first, array elements in index order
\* and object entries in key insertion order, each on a line indented by
\* (depth + 1) indent widths, the closing bracket by depth indent widths.
C20_InsertionOrder ==
    TextReturned =>
        /\ LaidOutByTraversal
        /\ EntriesPrintedInOrder(InsertedBefore)

\* C20 with the order of Object.keys: the same, the entries of an object
\* being printed with the integer-like keys first, in ascending numeric
\* order, and then the other keys in insertion order
C20_ObjectKeysOrder ==
    TextReturned =>
        /\ LaidOutByTraversal
        /\ EntriesPrintedInOrder(ListedBefore)

\* C20 witness: an object whose integer-like keys were inserted last and in
\* descending order has been printed, with an annotation on an entry
C20_Witness ==
    /\ TextReturned
    /\ value.t = "ref"
    /\ heap[value.n].keys = <<KeyA, KeyTen, KeyTwo>>
    /\ \A i \in 1..3 : heap[value.n].items[i].t = "number"
    /\ errors # <<>>
    /\ StartsWith(ResultLines[2], Indent(1) \o JSONQuote(KeyTwo))
    /\ Comment(ResultLines[4]) # <<>>

-----------------------------------------------------------------------------
(* Claims about the paths of distinct nodes *)

\* the lines whose annotation holds message m
LinesWith(m) ==
    { l \in 1..Len(ResultLines) : Occurs(m, Comment(ResultLines[l])) }

\* some key of the heap contains the character "/"
HasSlashKey(h) ==
    \E id \in 1..Len(h) : \E i \in 1..Len(h[id].keys) :
        \E j \in 1..Len(h[id].keys[i]) : h[id].keys[i][j] = "/"

\* C23: within one call distinct nodes are assigned distinct paths, whatever
\* the keys (keys that contain "/" included), so that a single validation
\* error annotates at most one line.
C23_DistinctPaths ==
    TextReturned =>
        LET nodes == PrintedNodes
        IN  /\ \A i, j \in 1..Len(nodes) :
                  i # j => nodes[i].path # nodes[j].path
            /\ Len(errors) = 1 => Cardinality(LinesWith(errors[1].message)) <= 1

\* C23 apart from keys that contain "/": then the paths are distinct and a
\* single error annotates at most one line
C23_DistinctWithoutSlash ==
    (TextReturned /\ ~HasSlashKey(heap)) =>
        LET nodes == PrintedNodes
        IN  /\ \A i, j \in 1..Len(nodes) :
                  i # j => nodes[i].path # nodes[j].path
            /\ Len(errors) = 1 => Cardinality(LinesWith(errors[1].message)) <= 1

\* one error at /a/b has annotated two lines
C23_TwoLinesAnnotated ==
    /\ TextReturned
    /\ Len(errors) = 1
    /\ Cardinality(LinesWith(errors[1].message)) = 2

-----------------------------------------------------------------------------
(* The calendar, as the JavaScript Date object and date-fns compute it *)

IsLeapYear(y) == (y % 4 = 0 /\ y % 100 # 0) \/ y % 400 = 0

DaysInMonth(y, m) ==
    IF m = 1 THEN (IF IsLeapYear(y) THEN 29 ELSE 28)
    ELSE IF m \in {3, 5, 8, 10} THEN 30 ELSE 31

IsValidDate(dt) ==
    /\ dt.m \in 0..11
    /\ dt.d \in 1..DaysInMonth(dt.y, dt.m)

\* days from 1970-01-01 to the first day of year y
DaysBeforeYear(y) ==
    365 * (y - 1970) + ((y - 1969) \div 4) - ((y - 1901) \div 100)
        + ((y - 1601) \div 400)

RECURSIVE DaysBeforeMonth(_, _)
DaysBeforeMonth(y, m) ==
    IF m = 0 THEN 0 ELSE DaysBeforeMonth(y, m - 1) + DaysInMonth(y, m - 1)

\* the day number of a date (1970-01-01 is day 0)
DayNumber(dt) == DaysBeforeYear(dt.y) + DaysBeforeMonth(dt.y, dt.m) + dt.d - 1

\* getDay: 0 = Sunday; 1970-01-01 was a Thursday
getDay(dt) == (DayNumber(dt) + 4) % 7

getDate(dt) == dt.d
getMonth(dt) == dt.m
getYear(dt) == dt.y

startOfMonth(dt) == [y |-> dt.y, m |-> dt.m, d |-> 1]

\* new Date(year, month, day) with a day outside the month: the Date object
\* carries the excess into the neighbouring months
RECURSIVE MakeDate(_, _, _)
MakeDate(y, m, d) ==
    IF d < 1 THEN
        (IF m = 0 THEN MakeDate(y - 1, 11, d + 31)
         ELSE MakeDate(y, m - 1, d + DaysInMonth(y, m - 1)))
    ELSE IF d > DaysInMonth(y, m) THEN
        (IF m = 11 THEN MakeDate(y + 1, 0, d - 31)
         ELSE MakeDate(y, m + 1, d - DaysInMonth(y, m)))
    ELSE [y |-> y, m |-> m, d |-> d]

\* a slip that sets the day of the month without carrying into the
\* neighbouring months
addDays_NoCarry(dt, amount) == [y |-> dt.y, m |-> dt.m, d |-> dt.d + amount]

\* date-fns addDays: setDate(getDate() + amount)
addDays(dt, amount) == MakeDate(dt.y, dt.m, dt.d + amount)

-----------------------------------------------------------------------------
(* The date projector *)

\* a slip that counts the weekday's ordinal instead of the calendar week
getWeekOfMonth_Ordinal(date) == (getDate(date) + 6) \div 7

\* Math.ceil((getDate(date) + getDay(startOfMonth(date))) / 7)
getWeekOfMonth(date) == (getDate(date) + getDay(startOfMonth(date)) + 6) \div 7

\* a slip that forgets to step back to the Sunday of the first week
getWeekdayInNthWeek_NoAlign(year, month, weekday, week) ==
    addDays([y |-> year, m |-> month, d |-> 1], weekday + (week - 1) * 7)

getWeekdayInNthWeek(year, month, weekday, week) ==
    LET firstOfMonth == [y |-> year, m |-> month, d |-> 1]
        firstDayOfWeek == getDay(firstOfMonth)
    IN  addDays(firstOfMonth, (0 - firstDayOfWeek) + weekday + (week - 1) * 7)

addYearSameWeekday(date) ==
    getWeekdayInNthWeek(getYear(date) + 1, getMonth(date), getDay(date),
                        getWeekOfMonth(date))

-----------------------------------------------------------------------------
(* The Editor's pre-fill of next year's dates from the template event *)

AllDates ==
    { dt \in [y : MinYear..MaxYear, m : 0..11, d : 1..31] : IsValidDate(dt) }

InitDates ==
    /\ pc = "template"
    /\ startDate \in AllDates
    /\ \E span \in 0..MaxSpan : endDate = addDays(startDate, span)
    /\ dates = <<>>
    /\ heap = <<>>
    /\ value = Null
    /\ errors = <<>>
    /\ version = "current"
    /\ result = NoResult
    /\ lastSeen = {}
    /\ log = <<>>
    /\ ComponentsMounted

\* initialValues.dates = [addYearSameWeekday(startDate),
\*                        addYearSameWeekday(endDate)]
InitialValues ==
    /\ pc = "template"
    /\ dates' = <<addYearSameWeekday(startDate), addYearSameWeekday(endDate)>>
    /\ pc' = "prefilled"
    /\ UNCHANGED <<startDate, endDate>>
    /\ UNCHANGED serializerVars
    /\ UNCHANGED callVars
    /\ UNCHANGED componentVars

NextDates == InitialValues

SpecDates == InitDates /\ [][NextDates]_vars

-----------------------------------------------------------------------------
(* Vocabulary of the date claims, defined from the calendar alone *)

Prefilled == pc = "prefilled"

\* the template dates and their projections, as pairs <<D, projection of D>>
Projections == { <<startDate, dates[1]>>, <<endDate, dates[2]>> }

\* n: how many days of D's month, on or before D, fall on D's weekday
Ordinal(dt) ==
    Cardinality({ e \in 1..dt.d :
        getDay([y |-> dt.y, m |-> dt.m, d |-> e]) = getDay(dt) })

\* the n-th occurrence of weekday w in month m of year y exists
HasNth(y, m, w, n) ==
    \E e \in 1..7 :
        /\ getDay([y |-> y, m |-> m, d |-> e]) = w
        /\ n >= 1
        /\ e + 7 * (n - 1) <= DaysInMonth(y, m)

\* dt is the n-th occurrence of its weekday within its month
IsNth(dt, n) == IsValidDate(dt) /\ Ordinal(dt) = n

\* k: the row of D in the month's calendar grid whose weeks start on Sunday:
\* one more than the number of Sundays after the 1st, up to D
CalendarRow(dt) ==
    1 + Cardinality({ e \in 2..dt.d :
            getDay([y |-> dt.y, m |-> dt.m, d |-> e]) = 0 })

NextYearFirst(dt) == [y |-> dt.y + 1, m |-> dt.m, d |-> 1]

\* r lies in row k of the calendar grid of the month whose first day is first
InRow(r, first, k) ==
    LET gridStart == DayNumber(first) - getDay(first)
    IN  DayNumber(r) - gridStart \in (7 * (k - 1))..(7 * k - 1)

-----------------------------------------------------------------------------
(* Claims about the date projector, checked under SpecDates *)

C2_SpillWitness ==
    /\ Prefilled
    /\ DayNumber(dates[1]) >=
          DayNumber(NextYearFirst(startDate))
            + DaysInMonth(startDate.y + 1, startDate.m)

\* C3: the projection of D has the same day of the week as D.
C3_SameWeekday ==
    Prefilled =>
        /\ getDay(dates[1]) = getDay(startDate)
        /\ getDay(dates[2]) = getDay(endDate)

\* C3 witness: a projection onto a different day of the month, same weekday
C3_Witness ==
    /\ Prefilled
    /\ dates[1].d # startDate.d
    /\ getDay(dates[1]) = getDay(startDate)

\* the concrete case of the specification: 2024-03-09 projects to 2025-03-08
Example20240309 ==
    (Prefilled /\ startDate = [y |-> 2024, m |-> 2, d |-> 9]) =>
        /\ getDay(startDate) = 6
        /\ dates[1] = [y |-> 2025, m |-> 2, d |-> 8]

C17_SecondSaturdayOfMarch ==
    Prefilled =>
        \A p \in Projections :
            p[1] = [y |-> 2024, m |-> 2, d |-> 9] =>
                /\ getDay(p[1]) = 6 /\ Ordinal(p[1]) = 2
                /\ p[2] = [y |-> 2025, m |-> 2, d |-> 8]
                /\ getDay(p[2]) = 6 /\ Ordinal(p[2]) = 2

\* C17 witness: 2024-03-09 has been projected
C17_Witness ==
    /\ Prefilled
    /\ startDate = [y |-> 2024, m |-> 2, d |-> 9]
    /\ dates[1] = [y |-> 2025, m |-> 2, d |-> 8]

\* D is the 5th occurrence of its weekday in its month (so it is later than
\* the 28th), and the same month of the next year has only 4 occurrences of
\* that weekday
FifthWithOnlyFour(dt) ==
    /\ dt.d > 28
    /\ Ordinal(dt) = 5
    /\ ~HasNth(dt.y + 1, dt.m, getDay(dt), 5)

\* r lies in the month after that of first
InFollowingMonth(r, first) ==
    LET next == addDays(first, DaysInMonth(first.y, first.m))
    IN  r.y = next.y /\ r.m = next.m

C18_SpillWitness ==
    /\ Prefilled
    /\ FifthWithOnlyFour(startDate)
    /\ InFollowingMonth(dates[1], NextYearFirst(startDate))

\* C21: the pre-fill preserves the order of the range: for every template
\* event with valid dates startDate <= endDate, the first of the suggested
\* dates is on or before the second.
C21_RangeOrderPreserved ==
    (Prefilled /\ DayNumber(startDate) <= DayNumber(endDate)) =>
        DayNumber(dates[1]) <= DayNumber(dates[2])

\* C21 within one month: when the template event starts and ends in the same
\* month, the suggested dates are as far apart as the template dates
C21_SameMonthKeepsDistance ==
    (Prefilled /\ startDate.y = endDate.y /\ startDate.m = endDate.m) =>
        DayNumber(dates[2]) - DayNumber(dates[1])
            = DayNumber(endDate) - DayNumber(startDate)

\* an event from 2022-01-30 to 2022-02-01 was projected onto a range that
\* ends before it starts
C21_Reversed ==
    /\ Prefilled
    /\ startDate = [y |-> 2022, m |-> 0, d |-> 30]
    /\ endDate = [y |-> 2022, m |-> 1, d |-> 1]
    /\ dates = <<[y |-> 2023, m |-> 1, d |-> 5], [y |-> 2023, m |-> 0, d |-> 31]>>

\* C22: the projection of every valid date D is exactly 364 or exactly 371
\* days after D (52 or 53 whole weeks), never any other distance.
C22_WholeWeeksLater ==
    Prefilled =>
        \A p \in Projections :
            DayNumber(p[2]) - DayNumber(p[1]) \in {364, 371}

\* C22 witness: a date has been projected 53 weeks ahead, across a leap day
C22_Witness ==
    /\ Prefilled
    /\ DayNumber(dates[1]) - DayNumber(startDate) = 371
    /\ IsLeapYear(startDate.y) /\ startDate.m < 2

-----------------------------------------------------------------------------
(* The Editor: the event id, the output series, its validation and the     *)
(* text shown.  Every handler sets the form's values; the render that       *)
(* follows computes seriesId, generatedEventId, outputSeries,               *)
(* validationErrors and raw from them (useForm returns a new form object on *)
(* every render, and form is among the dependencies of the memos).          *)

\* what is typed into the fields of the form
Prefixes == { <<>>, <<"I", " ", "&", "!">> }
Suffixes == { <<>>, <<"2", "0", "2", "5">> }
Urls == { <<>>, <<"u">> }
IdTexts == { <<"m">> }
\* the day picked, and the places the PlacePicker hands over
EditorDates == { MakeDate(2025, 0, 1) }
EditorPlaces ==
    { Null, Place(<<"v">>, Str(<<"s">>), Str(<<"T", "R">>), LatLng(Wgs84)) }
\* the members of the first event the schema may require to be non-empty
SchemaFields == { <<"i", "d">>, <<"u", "r", "l">> }

\* new Intl.Locale(`und-${regionCode}`).maximize().baseName, its language
guessLanguageForRegion(regionCode) ==
    IF regionCode = <<"T", "R">> THEN <<"t", "r">> ELSE <<"e", "n">>

\* String.prototype.toLocaleLowerCase, on one character; "dotless i" is the
\* one character U+0131
toLocaleLowerCase(c, locale) ==
    CASE c = "A" -> "a"
      [] c = "I" -> IF locale = <<"t", "r">> THEN "dotless i" ELSE "i"
      [] OTHER -> c

\* \p{L}, \p{N}, \s and "-"
IsSlugChar(c) == c \in {"a", "n", "d", "i", "dotless i", "m", "v", " ", "-"} \/ IsDigit(c)

\* s.trim().split(/\s+/): the runs of characters between white space
RECURSIVE SplitWords(_, _)
SplitWords(s, word) ==
    IF s = <<>> THEN IF word = <<>> THEN <<>> ELSE <<word>>
    ELSE IF Head(s) = " "
         THEN (IF word = <<>> THEN <<>> ELSE <<word>>) \o SplitWords(Tail(s), <<>>)
         ELSE SplitWords(Tail(s), Append(word, Head(s)))

slugify(s, locale) ==
    LET lower == [i \in 1..Len(s) |-> toLocaleLowerCase(s[i], locale)]
        anded == Flatten([i \in 1..Len(s) |->
                            IF lower[i] = "&" THEN <<"a", "n", "d">>
                            ELSE <<lower[i]>>])
        kept == SelectSeq(anded, IsSlugChar)
    IN  Join(SplitWords(kept, <<>>), <<"-">>)

seriesId(f) ==
    slugify(f.prefix,
            IF f.country.t # "undefined"
            THEN guessLanguageForRegion(f.country.s) ELSE <<"e", "n">>)

generatedEventId(f) ==
    LET start == f.dates[1]
        end == f.dates[2]
        idSuffix == IF end # Null /\ NatToChars(getYear(end)) = f.suffix
                    THEN f.suffix
                    ELSE IF start # Null THEN NatToChars(getYear(start))
                    ELSE <<>>
    IN  IF idSuffix # <<>> THEN seriesId(f) \o <<"-">> \o idSuffix
        ELSE seriesId(f)

\* values.id ?? generatedEventId
EventId_Generated(f) == generatedEventId(f)

EventId(f) == IF f.id.t = "null" THEN generatedEventId(f) ELSE f.id.s

\* formatDate(d, "yyyy-MM-dd"), the text the form holds for a date
FormatDate(dt) ==
    LET two(n) == IF n < 10 THEN <<"0">> \o NatToChars(n) ELSE NatToChars(n)
    IN  NatToChars(dt.y) \o <<"-">> \o two(dt.m + 1) \o <<"-">> \o two(dt.d)

DateText(d) == IF d = Null THEN <<>> ELSE FormatDate(d)

EventName(f) ==
    IF f.prefix # <<>>
    THEN f.prefix \o (IF f.suffix # <<>> THEN <<" ">> \o f.suffix ELSE <<>>)
    ELSE <<>>

\* the keys of the first event, in the order of the object literal
EventKeys(ver) ==
    <<<<"i", "d">>, <<"n", "a", "m", "e">>, <<"u", "r", "l">>,
      <<"s", "t", "a", "r", "t", "D", "a", "t", "e">>,
      <<"e", "n", "d", "D", "a", "t", "e">>>>
    \o (IF ver = "current"
        THEN <<<<"v", "e", "n", "u", "e">>, <<"a", "d", "d", "r", "e", "s", "s">>>>
        ELSE <<<<"l", "o", "c", "a", "t", "i", "o", "n">>>>)
    \o <<<<"c", "o", "u", "n", "t", "r", "y">>, <<"l", "a", "t", "L", "n", "g">>>>

\* outputSeries, laid out on a heap: 1 the series, 2 its events, 3 the first
\* event, 4 its latLng when it has one; there is no template series
outputSeries(f, ver) ==
    LET event ==
            <<Str(EventId(f)), Str(EventName(f)), Str(f.url),
              Str(DateText(f.dates[1])), Str(DateText(f.dates[2]))>>
            \o (IF ver = "current" THEN <<Str(f.venue), f.address>>
                ELSE <<Str(f.venue)>>)
            \o <<f.country,
                 IF f.latLng.t = "undefined" THEN Undefined ELSE Ref(4)>>
    IN  [value |-> Ref(1),
         heap |-> <<ObjectOf(<<<<"n", "a", "m", "e">>,
                               <<"e", "v", "e", "n", "t", "s">>>>,
                             <<Str(f.prefix), Ref(2)>>),
                    ArrayOf(<<Ref(3)>>),
                    ObjectOf(EventKeys(ver), event)>>
                  \o (IF f.latLng.t = "undefined" THEN <<>>
                      ELSE <<ArrayOf(<<Num(1), Num(2)>>)>>)]

\* validate(outputSeries); validate.errors ?? []: one error for every member
\* of the first event that the schema requires and that is empty
RECURSIVE ErrorsOfEvent(_, _, _)
ErrorsOfEvent(event, required, i) ==
    IF i > Len(event.keys) THEN <<>>
    ELSE (IF event.keys[i] \in required /\ event.items[i] = Str(<<>>)
          THEN <<[instancePath |-> <<"/", "e", "v", "e", "n", "t", "s",
                                     "/", "0", "/">> \o event.keys[i],
                  message |-> <<"m">>]>>
          ELSE <<>>)
         \o ErrorsOfEvent(event, required, i + 1)

validationErrors(f, required, ver) ==
    ErrorsOfEvent(outputSeries(f, ver).heap[3], required, 1)

\* raw = myStringifyWithErrors(outputSeries, validationErrors)
raw(f, required, ver) ==
    LET out == outputSeries(f, ver)
    IN  myStringifyWithErrors(out.heap, out.value,
                              validationErrors(f, required, ver), ver)

\* checked={form.values.id == null} and disabled={form.values.id == null}
AutoChecked == form.id.t = "null"
IdDisabled == form.id.t = "null"

\* disabled={validationErrors.length > 0} of the copy ActionIcon
CopyDisabled_Never == FALSE

CopyDisabled == Len(validationErrors(form, schema, version)) > 0

InitEditor ==
    /\ pc = "editor"
    /\ startDate = [y |-> MinYear, m |-> 0, d |-> 1]
    /\ endDate = startDate
    /\ dates = <<>>
    /\ heap = <<>>
    /\ value = Null
    /\ errors = <<>>
    /\ version \in {"current", "earlier"}
    /\ result = NoResult
    /\ lastSeen = {}
    /\ log = <<>>
    /\ PlacePickerMounted(Null)
    /\ \E required \in {{}, SchemaFields} : EditorMounted(DefaultValues, required)
    /\ CachesLoaded

\* onChange of the ID TextInput
SetId ==
    \E text \in IdTexts :
        /\ ~IdDisabled
        /\ form' = [form EXCEPT !.id = Str(text)]
        /\ UNCHANGED <<schema, clipboard>>
        /\ UNCHANGED outsideEditor

\* onChange of the Auto Checkbox: e.target.checked is what it was not
ToggleAuto ==
    LET checked == ~AutoChecked
    IN  /\ form' = [form EXCEPT !.id =
                       IF checked THEN Null
                       ELSE IF version = "current"
                            THEN Str(generatedEventId(form))
                            ELSE Str(<<>>)]
        /\ UNCHANGED <<schema, clipboard>>
        /\ UNCHANGED outsideEditor

SetPrefix ==
    \E text \in Prefixes :
        /\ form' = [form EXCEPT !.prefix = text]
        /\ UNCHANGED <<schema, clipboard>>
        /\ UNCHANGED outsideEditor

SetSuffix ==
    \E text \in Suffixes :
        /\ form' = [form EXCEPT !.suffix = text]
        /\ UNCHANGED <<schema, clipboard>>
        /\ UNCHANGED outsideEditor

SetUrl ==
    \E text \in Urls :
        /\ form' = [form EXCEPT !.url = text]
        /\ UNCHANGED <<schema, clipboard>>
        /\ UNCHANGED outsideEditor

\* onChange of the two DateInputs: one of the dates is set or cleared
SetDate ==
    \E i \in 1..2 :
        \E d \in EditorDates \cup {Null} :
            /\ form' = [form EXCEPT !.dates[i] = d]
            /\ UNCHANGED <<schema, clipboard>>
            /\ UNCHANGED outsideEditor

\* onChange of the PlacePicker
SetPlace ==
    \E place \in EditorPlaces :
        /\ form' = [form EXCEPT
                      !.venue = IF place # Null THEN place.venue ELSE <<>>,
                      !.address = IF place # Null /\ version = "current"
                                  THEN place.address ELSE Undefined,
                      !.country = IF place # Null THEN place.country ELSE Undefined,
                      !.latLng = IF place # Null THEN place.latLng ELSE Undefined]
        /\ UNCHANGED <<schema, clipboard>>
        /\ UNCHANGED outsideEditor

\* onClick of the copy ActionIcon: clipboard.copy(raw)
Copy ==
    /\ version = "earlier"
    /\ ~CopyDisabled
    /\ clipboard' = Str(raw(form, schema, version).text)
    /\ UNCHANGED <<form, schema>>
    /\ UNCHANGED outsideEditor

NextEditor ==
    \/ SetId
    \/ ToggleAuto
    \/ SetPrefix
    \/ SetSuffix
    \/ SetUrl
    \/ SetDate
    \/ SetPlace
    \/ Copy

SpecEditor == InitEditor /\ [][NextEditor]_vars

-----------------------------------------------------------------------------
(* Claims about the PlacePicker, checked under SpecPlaces *)

\* the request, by its number, a list of suggestions answers
RequestsOf(list) == { s.request : s \in list }

\* C24: the suggestion list reflects the most recently issued autocomplete
\* request: with two requests in flight and their responses arriving in any
\* order, the response to the earlier request never replaces the options
\* set from the response to the later request.
C24_LatestResponseWins ==
    [][\A earlier \in RequestsOf(options'), later \in RequestsOf(options) :
           earlier >= later]_vars

\* C24: the suggestions of the first request are listed although the
\* second request, sent later, has already been answered
C24_StaleSuggestions ==
    /\ RequestsOf(options) = {1}
    /\ issued = 2
    /\ inFlight = {}
    /\ rejected = <<>>

\* C25: once the search input has been blurred or cleared, and until the
\* user changes the text again (needsPredictionRef.current is false all that
\* time), the suggestion list is empty whatever response arrives: from a
\* request that was scheduled or in flight before, answered with
\* suggestions or not.
C25_NoSuggestionsUnlessNeeded ==
    ~needsPrediction => options = {}

\* C25 witness: the input was blurred and shows the committed text, every
\* request sent has been answered, and nothing is listed
C25_Witness ==
    /\ ~needsPrediction
    /\ ~focused
    /\ issued > 0
    /\ scheduled = {}
    /\ inFlight = {}
    /\ rejected = <<>>
    /\ options = {}

\* a request is pending: the debounce timer holds one, or one is in flight
RequestPending == scheduled # {} \/ inFlight # {}

\* C26: loading is true whenever an autocomplete request is pending, from a
\* non-empty text change until the response or the failure of the latest
\* request issued for it has been processed: it is never false while a
\* debounced request is scheduled or a request is in flight, and it is false
\* once all issued requests have settled.
C26_LoadingIffPending ==
    loading <=> RequestPending

\* C26, the half that holds: with nothing scheduled and nothing in flight,
\* loading is false
C26_IdleWhenSettled ==
    ~RequestPending => ~loading

\* C26: loading is false although a request is scheduled or in flight
C26_IdleWhilePending ==
    /\ ~loading
    /\ RequestPending

\* the step in which fetchFields for the place p settles
Settled(p) == p \in retrievals /\ p \notin retrievals'

\* C27: when a suggestion is submitted, retrieving becomes true and the
\* input is disabled until the place-details fetch settles.  If the fetch,
\* or extracting the location or the country from it, fails, onChange is not
\* called (the committed value is unchanged), the input text is reset to
\* empty and retrieving returns to false; if it succeeds, onChange is called
\* exactly once, with the place carrying latLng and country, and retrieving
\* returns to false.  Retrieving never stays true after the fetch settled.
C27_RetrievalSettles ==
    /\ [](retrieving <=> retrievals # {})
    /\ [](retrieving => InputDisabled)
    /\ [][\A p \in retrievals :
             Settled(p) =>
                /\ ~retrieving'
                /\ IF rejected' # rejected
                   THEN /\ changes' = changes
                        /\ placeValue' = placeValue
                        /\ inputValue' = Str(<<>>)
                   ELSE /\ Len(changes') = Len(changes) + 1
                        /\ LET v == changes'[Len(changes')]
                           IN  /\ changes' = Append(changes, v)
                               /\ placeValue' = v
                               /\ v.venue = p.venue
                               /\ v.address = p.address
                               /\ v.latLng.t = "string"
                               /\ v.country.t = "string"]_vars

\* C27 witness: a retrieval has failed: the committed value is still there,
\* onChange was never called, the input is empty and enabled again
C27_Witness ==
    /\ rejected # <<>>
    /\ rejected[Len(rejected)] = "details"
    /\ retrievals = {}
    /\ ~retrieving
    /\ changes = <<>>
    /\ placeValue.t = "place"
    /\ inputValue = Str(<<>>)

\* C27 witness: a retrieval has succeeded: the only call of onChange carries
\* the place with its latLng and its country
C27_Retrieved ==
    /\ rejected = <<>>
    /\ retrievals = {}
    /\ ~retrieving
    /\ Len(changes) = 1
    /\ changes[1].t = "place"
    /\ changes[1].latLng = LatLng(Wgs84)
    /\ changes[1].country = Str(<<"C", "N">>)
    /\ placeValue = changes[1]

-----------------------------------------------------------------------------
(* Claims about the Editor, checked under SpecEditor *)

\* the id of the first event, read from the output
OutputId(f, ver) == outputSeries(f, ver).heap[3].items[1].s

\* C28: after any sequence of form edits and Auto toggles, the form's id is
\* null exactly when the Auto checkbox is checked; while it is checked the
\* ID input is disabled and the id of the first event of the output is
\* generatedEventId of the current prefix, country, suffix and dates; while
\* it is unchecked the output id is the id entered by hand, and it does not
\* change when prefix, suffix or dates change.
C28_IdField ==
    /\ [](AutoChecked <=> form.id = Null)
    /\ [](AutoChecked =>
            /\ IdDisabled
            /\ OutputId(form, version) = generatedEventId(form))
    /\ [](~AutoChecked =>
            /\ ~IdDisabled
            /\ OutputId(form, version) = form.id.s)
    /\ [][(~AutoChecked /\ form'.id = form.id) =>
             OutputId(form', version') = OutputId(form, version)]_vars

\* C28 witness: Auto is unchecked and an id was entered by hand; prefix,
\* suffix and dates are set and would generate another id
C28_Witness ==
    /\ ~AutoChecked
    /\ form.id = Str(<<"m">>)
    /\ form.prefix # <<>>
    /\ form.suffix # <<>>
    /\ form.dates[1] # Null
    /\ form.dates[2] # Null
    /\ OutputId(form, version) = <<"m">>
    /\ generatedEventId(form) = <<"i", "-", "a", "n", "d", "-", "2", "0", "2", "5">>

\* C28 witness: Auto is checked again after an id was entered by hand, and
\* the output carries the generated id, lower-cased for the country
C28_Generated ==
    /\ AutoChecked
    /\ form.country = Str(<<"T", "R">>)
    /\ form.suffix = <<>>
    /\ OutputId(form, version)
          = <<"dotless i", "-", "a", "n", "d", "-", "2", "0", "2", "5">>

\* C29: in the Editor with the copy button, copying is enabled only when
\* the validation of the current output yields no errors: no step copies the
\* output text while validationErrors of the displayed output is non-empty,
\* so what is on the clipboard is the output text without any annotation.
C29_CopyOnlyWhenValid ==
    /\ [][clipboard' # clipboard =>
             /\ validationErrors(form, schema, version) = <<>>
             /\ clipboard' = Str(raw(form, schema, version).text)]_vars
    /\ [](clipboard # Null =>
             \A i \in 1..(Len(clipboard.s) - 1) :
                 ~(clipboard.s[i] = "/" /\ clipboard.s[i + 1] = "/"))

\* C29 witness: the output was copied while it was valid under a schema that
\* requires the id and the url, and has since been made invalid
C29_Witness ==
    /\ version = "earlier"
    /\ schema = SchemaFields
    /\ clipboard # Null
    /\ CopyDisabled

-----------------------------------------------------------------------------
(* IntlList and Flag: a render looks its formatter or its country name up   *)
(* in the cache of its module, under a key made of the locale and the       *)
(* parameters, and constructs it when it is missing; the effect with the    *)
(* dependency t runs after the first render and after every render in       *)
(* which t, which changes with the locale, is another one.  A cache is a    *)
(* sequence of entries [key, value].                                        *)

Locales == { <<"e", "n">>, <<"j", "a">> }
ListTypes ==
    { <<"c", "o", "n", "j", "u", "n", "c", "t", "i", "o", "n">>,
      <<"d", "i", "s", "j", "u", "n", "c", "t", "i", "o", "n">> }
ListStyles == { <<"l", "o", "n", "g">>, <<"s", "h", "o", "r", "t">> }
Countries == { <<"U", "S">>, <<"J", "P">> }

\* new Intl.ListFormat(i18n.locale, { style, type })
ListFormat(l, type, style) ==
    [formats |-> "list", locale |-> l, type |-> type, style |-> style]

\* new Intl.DisplayNames(i18n.locale, { type: "region" }).of(country)
DisplayName(l, country) ==
    [formats |-> "region", locale |-> l, of |-> country]

\* `${i18n.locale}:${type}:${style}`
ListCacheKey_NoLocale(l, type, style) == type \o <<":">> \o style

ListCacheKey(l, type, style) == l \o <<":">> \o type \o <<":">> \o style

\* `${i18n.locale}:${country}`
FlagCacheKey(l, country) == l \o <<":">> \o country

\* cache[cacheKey]
Cached(entries, key) ==
    IF \E i \in 1..Len(entries) : entries[i].key = key
    THEN (CHOOSE e \in { entries[i] : i \in 1..Len(entries) } : e.key = key).value
    ELSE Undefined

\* cache[cacheKey] ??= constructed: the value of the expression, and the
\* cache after it
Lookup(entries, key, constructed) ==
    IF Cached(entries, key) # Undefined
    THEN [value |-> Cached(entries, key), cache |-> entries]
    ELSE [value |-> constructed,
          cache |-> Append(entries, [key |-> key, value |-> constructed])]

\* the effect of a component is to run: it has rendered, and never before or
\* with another t
EffectPending(c) == rendered[c] # NotRendered /\ deps[c] # rendered[c].locale

\* i18n.activate(l): the locale changes, and with it t
activate ==
    \E l \in Locales :
        /\ l # activeLocale
        /\ activeLocale' = l
        /\ UNCHANGED <<cache, rendered, deps>>
        /\ UNCHANGED outsideCaches

\* a render of IntlList
IntlList ==
    \E type \in ListTypes, style \in ListStyles :
        LET cacheKey == ListCacheKey(activeLocale, type, style)
            found == Lookup(cache["IntlList"], cacheKey,
                            ListFormat(activeLocale, type, style))
        IN  /\ ~EffectPending("IntlList")
            /\ cache' = [cache EXCEPT !["IntlList"] = found.cache]
            /\ rendered' = [rendered EXCEPT !["IntlList"] =
                              [locale |-> activeLocale, key |-> cacheKey,
                               value |-> found.value]]
            /\ UNCHANGED <<activeLocale, deps>>
            /\ UNCHANGED outsideCaches

\* a render of Flag with a country
Flag ==
    \E country \in Countries :
        LET cacheKey == FlagCacheKey(activeLocale, country)
            found == Lookup(cache["Flag"], cacheKey,
                            DisplayName(activeLocale, country))
        IN  /\ ~EffectPending("Flag")
            /\ cache' = [cache EXCEPT !["Flag"] = found.cache]
            /\ rendered' = [rendered EXCEPT !["Flag"] =
                              [locale |-> activeLocale, key |-> cacheKey,
                               value |-> found.value]]
            /\ UNCHANGED <<activeLocale, deps>>
            /\ UNCHANGED outsideCaches

\* useEffect(() => { cache = {}; }, [t]) of either component
useEffect ==
    \E c \in {"IntlList", "Flag"} :
        /\ EffectPending(c)
        /\ cache' = [cache EXCEPT ![c] = <<>>]
        /\ deps' = [deps EXCEPT ![c] = rendered[c].locale]
        /\ UNCHANGED <<activeLocale, rendered>>
        /\ UNCHANGED outsideCaches

InitCaches ==
    /\ pc = "caches"
    /\ startDate = [y |-> MinYear, m |-> 0, d |-> 1]
    /\ endDate = startDate
    /\ dates = <<>>
    /\ heap = <<>>
    /\ value = Null
    /\ errors = <<>>
    /\ version = "current"
    /\ result = NoResult
    /\ lastSeen = {}
    /\ log = <<>>
    /\ ComponentsMounted

NextCaches ==
    \/ activate
    \/ IntlList
    \/ Flag
    \/ useEffect

SpecCaches == InitCaches /\ [][NextCaches]_vars

-----------------------------------------------------------------------------
(* Claims about the caches, checked under SpecCaches *)

\* what a fresh construction gives for the key of a lookup, in any locale
FreshByKey ==
    [c \in {"IntlList", "Flag"} |->
        IF c = "IntlList"
        THEN { [key |-> ListCacheKey(l, type, style),
                locale |-> l, value |-> ListFormat(l, type, style)] :
               l \in Locales, type \in ListTypes, style \in ListStyles }
        ELSE { [key |-> FlagCacheKey(l, country),
                locale |-> l, value |-> DisplayName(l, country)] :
               l \in Locales, country \in Countries }]

\* the component has rendered in the current locale and its effect has run
UpToDate(c) ==
    /\ rendered[c] # NotRendered
    /\ rendered[c].locale = activeLocale
    /\ ~EffectPending(c)

\* C30: after any sequence of renders and locale changes, the value a
\* lookup obtains from the cache of IntlList or of Flag is what a fresh
\* construction for the current locale and parameters gives: an entry built
\* for a previous locale is never returned; and a locale change empties the
\* cache: the effect that follows the render in the new locale leaves it
\* empty, so that afterwards it holds entries of the current locale only.
C30_CachesFollowLocale ==
    /\ [](\A c \in {"IntlList", "Flag"} :
            rendered[c] # NotRendered =>
                \E f \in FreshByKey[c] :
                    /\ f.key = rendered[c].key
                    /\ f.locale = rendered[c].locale
                    /\ f.value = rendered[c].value)
    /\ [](\A c \in {"IntlList", "Flag"} :
            UpToDate(c) =>
                \A i \in 1..Len(cache[c]) :
                    cache[c][i].value.locale = activeLocale)
    /\ [][\A c \in {"IntlList", "Flag"} :
             (deps'[c] # deps[c] /\ deps[c] # <<>>) => cache'[c] = <<>>]_vars

\* C30 witness: the locale has changed from "en" to "ja"; IntlList has
\* rendered in "ja", its effect has emptied the cache, and it has rendered
\* twice more; Flag, which had rendered in "en", has not rendered since
C30_Witness ==
    /\ activeLocale = <<"j", "a">>
    /\ deps["IntlList"] = <<"j", "a">>
    /\ UpToDate("IntlList")
    /\ Len(cache["IntlList"]) = 2
    /\ rendered["IntlList"].value.locale = <<"j", "a">>
    /\ rendered["Flag"].locale = <<"e", "n">>
    /\ deps["Flag"] = <<"e", "n">>
    /\ Len(cache["Flag"]) = 1

=============================================================================
